---- MODULE Spec2Model ----
(***************************************************************************)
(* Identity & Access Core of the Comply-X back end.                        *)
(*                                                                         *)
(*   Spec       the OAuth handshake state store (auth.py) driven by        *)
(*              concurrent oauth_authorize / oauth_callback requests       *)
(*   SpecPairs  the same store driven by workers that call                 *)
(*              _create_oauth_state and then _pop_oauth_state on the       *)
(*              token they received                                        *)
(*   SpecGuard  require_roles / require_role (auth.py)                     *)
(*   SpecPerm   PermissionLevel value resolution (models.py)               *)
(*   SpecAccess check_questionnaire_access (questionnaires.py)             *)
(*   SpecLogin  evaluate_login (app/routes/auth_ai.py)                     *)
(*   SpecReset  request_password_reset / confirm_password_reset (auth.py)  *)
(*                                                                         *)
(* Python's None and a missing dict key are written as the empty sequence  *)
(* <<>>; a present value x is written <<x>>.                               *)
(***************************************************************************)
EXTENDS Integers, Sequences, FiniteSets, TLC

VARIABLES
    now,        \* value datetime.utcnow() returns, in seconds
    ticks,      \* number of clock advances so far
    store,      \* _oauth_state_store: token -> payload
    lock,       \* request holding _oauth_state_lock, 0 when free
    kind,       \* per request: which entry point it runs
    pc,         \* per request: position in its code
    args,       \* per request: arguments of its _create_oauth_state call
    sampled,    \* per request: the `now` local of _create_oauth_state
    statearg,   \* per request: the state argument of _pop_oauth_state
    payload,    \* per request: value _pop_oauth_state returned
    users,      \* the users table, by email
    purgeDue,   \* tokens that were in the store, older than the TTL, when a purge ran (history)
    pops,       \* per token: completed _pop_oauth_state calls on it (history)
    last        \* the latest return of _pop_oauth_state or response of a request (history)

VARIABLES
    glabels,    \* the role labels an endpoint passes to require_roles
    gvia,       \* "require_roles" or "require_role": how the endpoint declares its guard
    gstage,     \* "declared", "guarded", "checked" or "ran"
    grequired,  \* the list require_roles hands to require_role
    gcaller,    \* current_user.role of the request
    gstatus     \* 0 before role_checker ran, then 200 or 403

VARIABLES
    praw,       \* per row: the stored permission_level string
    plevel,     \* per row: what PermissionLevel(raw) gave: not loaded, a member, or ValueError
    pfirst      \* per row: the string first loaded and the member it gave (history)

VARIABLES
    orgdb,          \* the departments, sites and countries tables
    requester,      \* the User row of the caller
    creator,        \* the User row of the questionnaire's creator, if any
    questionnaire,  \* the Questionnaire row
    astage,         \* "ready" or "done"
    aresult         \* what check_questionnaire_access returned

VARIABLES
    lpayload,   \* the LoginEvaluationRequest handed to evaluate_login
    lclock,     \* what datetime.utcnow() does: raises, or the hour it gives
    ldb,        \* the session: broken, or the users it finds
    lstage,     \* "ready" or "done"
    lresponse   \* what evaluate_login returned or raised

VARIABLES
    rclock,     \* value datetime.utcnow() returns, in seconds
    rticks,     \* number of clock advances so far
    ruser,      \* the users row: is_active and hashed_password
    rtokens,    \* password_reset_tokens: token -> row, or none
    rissued,    \* number of request_password_reset calls so far
    cpc,        \* per confirm request: "new", "found", "loaded" or "done"
    cargs,      \* per confirm request: the token and new_password it carries
    cstatus     \* per confirm request: the status answered, 0 while it runs

hsVars == <<now, ticks, store, lock, kind, pc, args, sampled, statearg, payload,
            users, purgeDue, pops, last>>
guardVars == <<glabels, gvia, gstage, grequired, gcaller, gstatus>>
permVars == <<praw, plevel, pfirst>>
accessVars == <<orgdb, requester, creator, questionnaire, astage, aresult>>
loginVars == <<lpayload, lclock, ldb, lstage, lresponse>>
resetVars == <<rclock, rticks, ruser, rtokens, rissued, cpc, cargs, cstatus>>

vars == <<hsVars, guardVars, permVars, accessVars, loginVars, resetVars>>

----------------------------------------------------------------------------
(* Bounds *)

NReq == 3
MaxTicks == 1

Reqs == 1 .. NReq

----------------------------------------------------------------------------
(* Configuration, auth.py lines 32-70 *)

OAUTH_STATE_TTL_SECONDS == 600

Url(origin, path) == [origin |-> origin, path |-> path, query |-> <<>>]

DEFAULT_OAUTH_REDIRECT == Url("http://localhost:3000", "/login")
ADDITIONAL_OAUTH_REDIRECTS == {Url("https://app.example", "/login")}
_REDIRECT_CANDIDATES == {DEFAULT_OAUTH_REDIRECT} \cup ADDITIONAL_OAUTH_REDIRECTS

\* scheme://netloc of a URL, None (<<>>) for a missing or relative URL
_extract_origin(url) ==
    IF url = <<>> THEN <<>>
    ELSE IF url[1].origin # "" THEN <<url[1].origin>> ELSE <<>>

ALLOWED_OAUTH_ORIGINS ==
    {o[1] : o \in {_extract_origin(<<u>>) : u \in _REDIRECT_CANDIDATES} \ {<<>>}}
DEFAULT_OAUTH_ORIGIN == _extract_origin(<<DEFAULT_OAUTH_REDIRECT>>)

\* a resolution that sends a missing target to the root of the default origin
_resolve_redirect_uri_Root(target) ==
    IF target # <<>> /\ _extract_origin(target) # <<>>
          /\ _extract_origin(target)[1] \in ALLOWED_OAUTH_ORIGINS
    THEN target[1]
    ELSE Url(DEFAULT_OAUTH_ORIGIN[1], "/")

\* target is <<>> or <<url>>; a relative target has origin "" and a path that
\* starts with "/"
_resolve_redirect_uri(target) ==
    IF target # <<>> /\ _extract_origin(target) # <<>>
          /\ _extract_origin(target)[1] \in ALLOWED_OAUTH_ORIGINS
    THEN target[1]
    ELSE IF target # <<>> /\ target[1].origin = "" /\ DEFAULT_OAUTH_ORIGIN # <<>>
    THEN [target[1] EXCEPT !.origin = DEFAULT_OAUTH_ORIGIN[1]]
    ELSE DEFAULT_OAUTH_REDIRECT

\* dict(parse_qsl(query)).update(params): the query as a sequence of <<key, value>>
_append_query_params(url, key, value) ==
    [url EXCEPT !.query =
        SelectSeq(url.query, LAMBDA kv : kv[1] # key) \o <<(<<key, value>>)>>]

SupportedProviders == {"google", "microsoft"}

\* provider.lower() on the path parameters the requests are drawn from
ProviderLower(p) ==
    CASE p = "Google" -> "google"
      [] p = "MICROSOFT" -> "microsoft"
      [] OTHER -> p

ProviderInputs == {"google", "Google", "microsoft", "MICROSOFT", "github"}

RedirectInputs ==
    { <<>>,
      <<Url("https://app.example", "/login")>>,
      <<Url("https://evil.example", "/steal")>> }

----------------------------------------------------------------------------
(* The handshake state store, auth.py lines 80-115 *)

NoState == 0                \* a callback without state (None or "")
ForgedState == NReq + 1     \* a state value no _create_oauth_state returned
Tokens == Reqs              \* secrets.token_urlsafe(32) of request r is r

Payload(provider, redirect_uri, created_at) ==
    [provider |-> provider, redirect_uri |-> redirect_uri, created_at |-> created_at]

\* isinstance(payload, dict) and isinstance(payload.get("created_at"), datetime)
IsWellFormed(p) == DOMAIN p = {"provider", "redirect_uri", "created_at"}

\* the age taken with its operands swapped
IsExpired_Swapped(p, reference_time) ==
    \/ ~IsWellFormed(p)
    \/ p.created_at - reference_time > OAUTH_STATE_TTL_SECONDS

IsExpired(p, reference_time) ==
    \/ ~IsWellFormed(p)
    \/ reference_time - p.created_at > OAUTH_STATE_TTL_SECONDS

\* a purge that also removes the entries aged exactly the TTL
_cleanup_expired_oauth_states_locked_Inclusive(s, reference_time) ==
    [t \in {x \in DOMAIN s : reference_time - s[x].created_at < OAUTH_STATE_TTL_SECONDS} |-> s[t]]

\* _cleanup_expired_oauth_states_locked: the store without its expired states
_cleanup_expired_oauth_states_locked(s, reference_time) ==
    LET expired_states == {t \in DOMAIN s : IsExpired(s[t], reference_time)}
    IN  [t \in DOMAIN s \ expired_states |-> s[t]]

\* an insert that rebinds the store to a new dict holding the one entry
StoreInsert_Rebind(s, state, p) == [t \in {state} |-> p]

\* _oauth_state_store[state] = {...}
StoreInsert(s, state, p) ==
    [t \in DOMAIN s \cup {state} |-> IF t = state THEN p ELSE s[t]]

\* a pop that looks at the entry's age before it returns it
StorePopValue_Fresh(s, state) ==
    IF state \in DOMAIN s /\ now - s[state].created_at <= OAUTH_STATE_TTL_SECONDS
    THEN <<s[state]>> ELSE <<>>

\* _oauth_state_store.pop(state, None): the value returned
StorePopValue(s, state) == IF state \in DOMAIN s THEN <<s[state]>> ELSE <<>>

\* a lookup that leaves the entry in place (get instead of pop)
StorePopRest_Get(s, state) == s

\* _oauth_state_store.pop(state, None): the store left behind
StorePopRest(s, state) == [t \in DOMAIN s \ {state} |-> s[t]]

----------------------------------------------------------------------------
(* The users table, models.py lines 460-477, as far as the login paths read
   and write it *)

Emails == {"ann@corp.example"}

UserRow(is_active, is_verified, last_login) ==
    [is_active |-> is_active, is_verified |-> is_verified, last_login |-> last_login]

\* _get_or_create_user_from_profile (auth.py lines 334-391): an existing user
\* is marked verified and active, a missing one is created so
_get_or_create_user_from_profile(db, email) ==
    IF db[email] # <<>>
    THEN [db EXCEPT ![email] = <<[db[email][1] EXCEPT !.is_verified = TRUE,
                                                       !.is_active = TRUE]>>]
    ELSE [db EXCEPT ![email] = <<UserRow(TRUE, TRUE, <<>>)>>]

\* user.last_login = datetime.utcnow(); db.commit()
SetLastLogin(db, email, t) ==
    [db EXCEPT ![email] = <<[db[email][1] EXCEPT !.last_login = <<t>>]>>]

----------------------------------------------------------------------------
(* Requests *)

NoResponse == [status |-> 0, url |-> <<>>, state |-> NoState]
HttpError(code) == [status |-> code, url |-> <<>>, state |-> NoState]
AuthorizationUrl(state) == [status |-> 200, url |-> <<>>, state |-> state]
RedirectResponse(url) == [status |-> 307, url |-> <<url>>, state |-> NoState]

NoEffects == [exchanged |-> FALSE, dbwrite |-> FALSE]

MsgExpired == "The sign-in session has expired. Please start again."
MsgInvalid == "The sign-in request is invalid. Please try again."
MsgProvider == "access_denied"
MsgNoCode == "Missing authorization code."
MsgExchange == "Unable to reach the identity provider."
MsgProfile == "Unable to retrieve profile information from provider."
MsgUnexpected == "Unexpected authentication error. Please try again."

\* The history record: which request, what happened ("pop": _pop_oauth_state
\* returned; "authorize", "callback": the request was answered), the state it
\* carried, the payload the pop returned, the pop's rank among the completed
\* pops of its token, whether a purge was due on the token before the pop, the
\* response, what the callback did, and the clock at that moment.
Event(r, event, state, p, ord, due, response, eff) ==
    [req |-> r, event |-> event, state |-> state, payload |-> p, ord |-> ord,
     due |-> due, resp |-> response, effects |-> eff, at |-> now]

NoEvent == Event(0, "none", NoState, <<>>, 0, FALSE, NoResponse, NoEffects)

\* the address is unknown, or belongs to a deactivated account
InitUsers ==
    { [e \in Emails |-> u] : u \in {<<>>, <<UserRow(FALSE, FALSE, <<>>)>>} }

InitHandshake ==
    /\ now = 0
    /\ ticks = 0
    /\ store = <<>>
    /\ lock = 0
    /\ kind = [r \in Reqs |-> "none"]
    /\ pc = [r \in Reqs |-> "new"]
    /\ args = [r \in Reqs |-> <<>>]
    /\ sampled = [r \in Reqs |-> 0]
    /\ statearg = [r \in Reqs |-> NoState]
    /\ payload = [r \in Reqs |-> <<>>]
    /\ users \in InitUsers
    /\ purgeDue = {}
    /\ pops = [t \in Tokens \cup {ForgedState} |-> 0]
    /\ last = NoEvent

\* requests are numbered in their order of arrival
Arrives(r) == pc[r] = "new" /\ \A q \in Reqs : q < r => pc[q] # "new"

TickSteps == {OAUTH_STATE_TTL_SECONDS, OAUTH_STATE_TTL_SECONDS + 1}

\* datetime.utcnow() moves on
Tick(d) ==
    /\ ticks < MaxTicks
    /\ now' = now + d
    /\ ticks' = ticks + 1
    /\ UNCHANGED <<store, lock, kind, pc, args, sampled, statearg, payload,
                   users, purgeDue, pops, last>>
    /\ UNCHANGED <<guardVars, permVars, accessVars, loginVars, resetVars>>

(* _create_oauth_state, auth.py lines 98-108 *)

\* lines 99-100: the token is drawn and the clock is read, before the lock
CreateEnter(r, provider, redirect_uri) ==
    /\ args' = [args EXCEPT ![r] = <<[provider |-> provider, redirect_uri |-> redirect_uri]>>]
    /\ sampled' = [sampled EXCEPT ![r] = now]
    /\ pc' = [pc EXCEPT ![r] = "c_sampled"]

\* the _create_oauth_state call that returns token t has made its insert
Inserted(t) ==
    args[t] # <<>> /\ pc[t] \notin {"new", "c_sampled", "c_locked", "c_purged"}

\* an acquire of a lock that every call makes anew
CreateAcquire_OwnLock(r) ==
    /\ pc[r] = "c_sampled"
    /\ lock' = r
    /\ pc' = [pc EXCEPT ![r] = "c_locked"]
    /\ UNCHANGED <<now, ticks, store, kind, args, sampled, statearg, payload,
                   users, purgeDue, pops, last>>
    /\ UNCHANGED <<guardVars, permVars, accessVars, loginVars, resetVars>>

\* line 101: with _oauth_state_lock
CreateAcquire(r) ==
    /\ pc[r] = "c_sampled"
    /\ lock = 0
    /\ lock' = r
    /\ pc' = [pc EXCEPT ![r] = "c_locked"]
    /\ UNCHANGED <<now, ticks, store, kind, args, sampled, statearg, payload,
                   users, purgeDue, pops, last>>
    /\ UNCHANGED <<guardVars, permVars, accessVars, loginVars, resetVars>>

\* a purge called without its argument: the reference time is the clock at the
\* time of the purge
CreateCleanup_Now(r) ==
    /\ pc[r] = "c_locked"
    /\ store' = _cleanup_expired_oauth_states_locked(store, now)
    /\ purgeDue' = purgeDue \cup
          {t \in Tokens : Inserted(t)
                            /\ sampled[r] - sampled[t] > OAUTH_STATE_TTL_SECONDS}
    /\ pc' = [pc EXCEPT ![r] = "c_purged"]
    /\ UNCHANGED <<now, ticks, lock, kind, args, sampled, statearg, payload,
                   users, pops, last>>
    /\ UNCHANGED <<guardVars, permVars, accessVars, loginVars, resetVars>>

\* line 102: _cleanup_expired_oauth_states_locked(now)
CreateCleanup(r) ==
    /\ pc[r] = "c_locked"
    /\ store' = _cleanup_expired_oauth_states_locked(store, sampled[r])
    /\ purgeDue' = purgeDue \cup
          {t \in Tokens : Inserted(t)
                            /\ sampled[r] - sampled[t] > OAUTH_STATE_TTL_SECONDS}
    /\ pc' = [pc EXCEPT ![r] = "c_purged"]
    /\ UNCHANGED <<now, ticks, lock, kind, args, sampled, statearg, payload,
                   users, pops, last>>
    /\ UNCHANGED <<guardVars, permVars, accessVars, loginVars, resetVars>>

\* lines 103-107: the insert, and the end of the with block
CreateInsert(r) ==
    /\ pc[r] = "c_purged"
    /\ store' = StoreInsert(store, r,
                    Payload(args[r][1].provider, args[r][1].redirect_uri, sampled[r]))
    /\ lock' = 0
    /\ pc' = [pc EXCEPT ![r] = "c_ret"]
    /\ UNCHANGED <<now, ticks, kind, args, sampled, statearg, payload,
                   users, purgeDue, pops, last>>
    /\ UNCHANGED <<guardVars, permVars, accessVars, loginVars, resetVars>>

(* _pop_oauth_state, auth.py lines 111-115 *)

\* lines 112-113: a falsy state returns None without taking the lock
PopEnter(r, state) ==
    /\ statearg' = [statearg EXCEPT ![r] = state]
    /\ pc' = [pc EXCEPT ![r] = IF state = NoState THEN "p_ret" ELSE "p_call"]
    /\ last' = IF state = NoState
               THEN Event(r, "pop", state, <<>>, 0, FALSE, NoResponse, NoEffects)
               ELSE last

\* line 114: with _oauth_state_lock
PopAcquire(r) ==
    /\ pc[r] = "p_call"
    /\ lock = 0
    /\ lock' = r
    /\ pc' = [pc EXCEPT ![r] = "p_locked"]
    /\ UNCHANGED <<now, ticks, store, kind, args, sampled, statearg, payload,
                   users, purgeDue, pops, last>>
    /\ UNCHANGED <<guardVars, permVars, accessVars, loginVars, resetVars>>

\* line 115: return _oauth_state_store.pop(state, None), and the end of the with block
PopRemove(r) ==
    /\ pc[r] = "p_locked"
    /\ payload' = [payload EXCEPT ![r] = StorePopValue(store, statearg[r])]
    /\ store' = StorePopRest(store, statearg[r])
    /\ lock' = 0
    /\ pops' = [pops EXCEPT ![statearg[r]] = @ + 1]
    /\ last' = Event(r, "pop", statearg[r], StorePopValue(store, statearg[r]),
                     pops[statearg[r]] + 1, statearg[r] \in purgeDue,
                     NoResponse, NoEffects)
    /\ pc' = [pc EXCEPT ![r] = "p_ret"]
    /\ UNCHANGED <<now, ticks, kind, args, sampled, statearg, users, purgeDue>>
    /\ UNCHANGED <<guardVars, permVars, accessVars, loginVars, resetVars>>

(* oauth_authorize, auth.py lines 479-517 *)

\* lines 481-489, 503-504: an unsupported provider is a 400, a provider whose
\* client id or secret is not configured a 503
AuthorizeReject(r, provider) ==
    /\ Arrives(r)
    /\ kind' = [kind EXCEPT ![r] = "authorize"]
    /\ last' = Event(r, "authorize", NoState, <<>>, 0, FALSE,
                     IF ProviderLower(provider) \notin SupportedProviders
                     THEN HttpError(400) ELSE HttpError(503),
                     NoEffects)
    /\ pc' = [pc EXCEPT ![r] = "done"]
    /\ UNCHANGED <<now, ticks, store, lock, args, sampled, statearg, payload,
                   users, purgeDue, pops>>
    /\ UNCHANGED <<guardVars, permVars, accessVars, loginVars, resetVars>>

\* lines 485, 490, 505: the call of _create_oauth_state
AuthorizeStart(r, provider, redirect_uri) ==
    /\ Arrives(r)
    /\ ProviderLower(provider) \in SupportedProviders
    /\ kind' = [kind EXCEPT ![r] = "authorize"]
    /\ CreateEnter(r, ProviderLower(provider), _resolve_redirect_uri(redirect_uri))
    /\ UNCHANGED <<now, ticks, store, lock, statearg, payload,
                   users, purgeDue, pops, last>>
    /\ UNCHANGED <<guardVars, permVars, accessVars, loginVars, resetVars>>

\* lines 491-517: the authorization URL carries the state
AuthorizeReturn(r) ==
    /\ kind[r] = "authorize"
    /\ pc[r] = "c_ret"
    /\ last' = Event(r, "authorize", r, <<>>, 0, FALSE, AuthorizationUrl(r), NoEffects)
    /\ pc' = [pc EXCEPT ![r] = "done"]
    /\ UNCHANGED <<now, ticks, store, lock, kind, args, sampled, statearg, payload,
                   users, purgeDue, pops>>
    /\ UNCHANGED <<guardVars, permVars, accessVars, loginVars, resetVars>>

(* oauth_callback, auth.py lines 520-578 *)

\* the state values a callback can carry: none, one nobody issued, or one an
\* authorization URL gave out
CallbackStates ==
    {NoState, ForgedState}
        \cup {q \in Reqs : kind[q] = "authorize" /\ pc[q] = "done" /\ args[q] # <<>>}

\* lines 529-531
CallbackReject(r, provider) ==
    /\ Arrives(r)
    /\ ProviderLower(provider) \notin SupportedProviders
    /\ kind' = [kind EXCEPT ![r] = "callback"]
    /\ last' = Event(r, "callback", NoState, <<>>, 0, FALSE, HttpError(400), NoEffects)
    /\ pc' = [pc EXCEPT ![r] = "done"]
    /\ UNCHANGED <<now, ticks, store, lock, args, sampled, statearg, payload,
                   users, purgeDue, pops>>
    /\ UNCHANGED <<guardVars, permVars, accessVars, loginVars, resetVars>>

\* line 533: the call of _pop_oauth_state
CallbackStart(r, state) ==
    /\ Arrives(r)
    /\ state \in CallbackStates
    /\ kind' = [kind EXCEPT ![r] = "callback"]
    /\ PopEnter(r, state)
    /\ UNCHANGED <<now, ticks, store, lock, args, sampled, payload,
                   users, purgeDue, pops>>
    /\ UNCHANGED <<guardVars, permVars, accessVars, loginVars, resetVars>>

\* line 534
FrontendRedirect(state_payload) ==
    _resolve_redirect_uri(
        IF state_payload # <<>> THEN <<state_payload[1].redirect_uri>> ELSE <<>>)

\* a callback that looks at the provider's error before the stored handshake
CallbackDecide_ErrorFirst(state_payload, provider, code, error, outcome, email, db, t) ==
    [resp |-> RedirectResponse(
                  _append_query_params(FrontendRedirect(state_payload), "oauth_error",
                      IF error THEN MsgProvider
                      ELSE IF state_payload = <<>> THEN MsgExpired ELSE MsgInvalid)),
     users |-> db,
     exchanged |-> FALSE]

\* a callback that, without a stored handshake, goes on with the provider of
\* its path
CallbackDecide_Default(state_payload, provider, code, error, outcome, email, db, t) ==
    [resp |-> RedirectResponse(
                  _append_query_params(FrontendRedirect(state_payload), "oauth_token", email)),
     users |-> SetLastLogin(_get_or_create_user_from_profile(db, email), email, t),
     exchanged |-> TRUE]

\* What lines 536-578 decide. provider is provider.lower(); code and error tell
\* whether the query has them; outcome is what the identity provider and the
\* database do: "ok", "exchange" (_exchange_code_for_tokens raises ValueError),
\* "profile" (_fetch_user_profile raises ValueError), "unexpected" (any other
\* exception before the user is looked up), "commit" (the commit of line 556
\* raises, after _get_or_create_user_from_profile committed its own changes). The result is the response, the users table and whether the
\* authorization code was sent to the identity provider.
CallbackDecide(state_payload, provider, code, error, outcome, email, db, t) ==
    LET frontend_redirect == FrontendRedirect(state_payload)
        fail(msg) == [resp |-> RedirectResponse(
                                   _append_query_params(frontend_redirect, "oauth_error", msg)),
                      users |-> db,
                      exchanged |-> FALSE]
    IN  IF state_payload = <<>> THEN fail(MsgExpired)
        ELSE IF state_payload[1].provider # provider THEN fail(MsgInvalid)
        ELSE IF error THEN fail(MsgProvider)
        ELSE IF ~code THEN fail(MsgNoCode)
        ELSE IF outcome = "exchange"
             THEN [fail(MsgExchange) EXCEPT !.exchanged = TRUE]
        ELSE IF outcome = "profile"
             THEN [fail(MsgProfile) EXCEPT !.exchanged = TRUE]
        ELSE IF outcome = "unexpected"
             THEN [fail(MsgUnexpected) EXCEPT !.exchanged = TRUE]
        ELSE IF outcome = "commit"
             THEN [resp |-> fail(MsgUnexpected).resp,
                   users |-> _get_or_create_user_from_profile(db, email),
                   exchanged |-> TRUE]
        ELSE LET db2 == SetLastLogin(_get_or_create_user_from_profile(db, email), email, t)
             IN  [resp |-> RedirectResponse(
                               _append_query_params(frontend_redirect, "oauth_token", email)),
                  users |-> db2,
                  exchanged |-> TRUE]

CallbackOutcomes == {"ok", "exchange", "profile", "unexpected", "commit"}

\* a callback that puts the handshake back into the store when it fails
CallbackFinish_Restore(r, provider, code, error, outcome, email) ==
    /\ kind[r] = "callback"
    /\ pc[r] = "p_ret"
    /\ LET d == CallbackDecide(payload[r], provider, code, error, outcome, email, users, now)
       IN  /\ users' = d.users
           /\ last' = Event(r, "callback", statearg[r], payload[r],
                            IF last.req = r THEN last.ord ELSE 0,
                            IF last.req = r THEN last.due ELSE FALSE,
                            d.resp,
                            [exchanged |-> d.exchanged, dbwrite |-> d.users # users])
           /\ store' = IF payload[r] # <<>> /\ d.resp.url[1].query[1][1] = "oauth_error"
                       THEN StoreInsert(store, statearg[r], payload[r][1])
                       ELSE store
    /\ pc' = [pc EXCEPT ![r] = "done"]
    /\ statearg' = [statearg EXCEPT ![r] = NoState]
    /\ payload' = [payload EXCEPT ![r] = <<>>]
    /\ UNCHANGED <<now, ticks, lock, kind, args, sampled, purgeDue, pops>>
    /\ UNCHANGED <<guardVars, permVars, accessVars, loginVars, resetVars>>

\* lines 534-578
CallbackFinish(r, provider, code, error, outcome, email) ==
    /\ kind[r] = "callback"
    /\ pc[r] = "p_ret"
    /\ LET d == CallbackDecide(payload[r], provider, code, error, outcome, email, users, now)
       IN  /\ users' = d.users
           /\ last' = Event(r, "callback", statearg[r], payload[r],
                            IF last.req = r THEN last.ord ELSE 0,
                            IF last.req = r THEN last.due ELSE FALSE,
                            d.resp,
                            [exchanged |-> d.exchanged, dbwrite |-> d.users # users])
    /\ pc' = [pc EXCEPT ![r] = "done"]
    /\ statearg' = [statearg EXCEPT ![r] = NoState]
    /\ payload' = [payload EXCEPT ![r] = <<>>]
    /\ UNCHANGED <<now, ticks, store, lock, kind, args, sampled, purgeDue, pops>>
    /\ UNCHANGED <<guardVars, permVars, accessVars, loginVars, resetVars>>

(* A worker that calls _create_oauth_state and then _pop_oauth_state on the
   token it received *)

PairProviders == SupportedProviders
PairRedirects == {Url("https://app.example", "/login"), Url("http://localhost:3000", "/login")}

PairCreate(r, provider, redirect_uri) ==
    /\ Arrives(r)
    /\ kind' = [kind EXCEPT ![r] = "pair"]
    /\ CreateEnter(r, provider, redirect_uri)
    /\ UNCHANGED <<now, ticks, store, lock, statearg, payload,
                   users, purgeDue, pops, last>>
    /\ UNCHANGED <<guardVars, permVars, accessVars, loginVars, resetVars>>

PairPop(r) ==
    /\ kind[r] = "pair"
    /\ pc[r] = "c_ret"
    /\ PopEnter(r, r)
    /\ UNCHANGED <<now, ticks, store, lock, kind, args, sampled, payload,
                   users, purgeDue, pops>>
    /\ UNCHANGED <<guardVars, permVars, accessVars, loginVars, resetVars>>

PairDone(r) ==
    /\ kind[r] = "pair"
    /\ pc[r] = "p_ret"
    /\ pc' = [pc EXCEPT ![r] = "done"]
    /\ statearg' = [statearg EXCEPT ![r] = NoState]
    /\ payload' = [payload EXCEPT ![r] = <<>>]
    /\ UNCHANGED <<now, ticks, store, lock, kind, args, sampled,
                   users, purgeDue, pops, last>>
    /\ UNCHANGED <<guardVars, permVars, accessVars, loginVars, resetVars>>

----------------------------------------------------------------------------
(* Properties of the handshake store *)

\* the entry _create_oauth_state(p, r) stored under token t
Created(t) == Payload(args[t][1].provider, args[t][1].redirect_uri, sampled[t])

HasToken(response) ==
    /\ response.url # <<>>
    /\ \E i \in DOMAIN response.url[1].query : response.url[1].query[i][1] = "oauth_token"

\* C1: the first _pop_oauth_state(token) after token = _create_oauth_state(p, r)
\* returns the entry with provider p and redirect_uri r (the handshake round
\* trip, no purge of the entry having come due in between), and every later
\* _pop_oauth_state(token) returns None.
HandshakeSingleUse ==
    (last.event = "pop" /\ last.state \in Tokens) =>
        /\ (last.ord = 1 /\ ~last.due) =>
               /\ last.payload # <<>>
               /\ last.payload[1].provider = args[last.state][1].provider
               /\ last.payload[1].redirect_uri = args[last.state][1].redirect_uri
        /\ last.ord > 1 => last.payload = <<>>

\* a second pop of a token whose entry never came due for a purge returned None
SecondPopAbsent ==
    /\ last.event = "pop"
    /\ last.state \in Tokens
    /\ last.ord = 2
    /\ ~last.due
    /\ last.payload = <<>>

\* C2: once an entry is created and a _create_oauth_state call whose clock
\* reading is more than OAUTH_STATE_TTL_SECONDS past the entry's creation has
\* run its purge, the entry is gone from the store and a later pop of its
\* token returns None.
HandshakeExpiry ==
    /\ \A t \in purgeDue : t \notin DOMAIN store
    /\ (last.event = "pop" /\ last.due) => last.payload = <<>>

\* the first pop of an issued token returned None because the entry was purged
FirstPopAfterPurgeAbsent ==
    /\ last.event = "pop"
    /\ last.state \in Tokens
    /\ last.ord = 1
    /\ last.due
    /\ last.payload = <<>>

\* C3: when the workers each call _create_oauth_state and then pop the token
\* they received, in any interleaving, a worker's pop never returns another
\* worker's entry, and it returns the worker's own entry (unless a purge of
\* that entry came due first).
NoCrossTalk ==
    /\ \A r \in Reqs :
          (kind[r] = "pair" /\ pc[r] = "p_ret" /\ payload[r] # <<>>)
              => payload[r][1] = Created(r)
    /\ (last.event = "pop" /\ ~last.due) => last.payload = <<Created(last.req)>>

\* two workers hold, at once, the different entries each of them created
TwoWorkersOwnEntries ==
    \E r1, r2 \in Reqs :
        /\ r1 # r2
        /\ pc[r1] = "p_ret" /\ pc[r2] = "p_ret"
        /\ payload[r1] = <<Created(r1)>>
        /\ payload[r2] = <<Created(r2)>>
        /\ args[r1] # args[r2]

\* C4: an oauth_callback whose _pop_oauth_state returned None fails: it sends no
\* authorization code to the identity provider, leaves the users table as it
\* was and its response carries no access token.
FailClosedOnAbsentState ==
    (last.event = "callback" /\ last.payload = <<>>) =>
        /\ ~last.effects.exchanged
        /\ ~last.effects.dbwrite
        /\ ~HasToken(last.resp)

\* a callback that replayed a consumed (or purged) state was answered with the
\* error redirect
ReplayedCallbackFailed ==
    /\ last.event = "callback"
    /\ last.state \in Tokens
    /\ last.payload = <<>>
    /\ last.resp = RedirectResponse(
           _append_query_params(DEFAULT_OAUTH_REDIRECT, "oauth_error", MsgExpired))

\* the critical sections of _create_oauth_state and _pop_oauth_state
InCriticalSection(r) == pc[r] \in {"c_locked", "c_purged", "p_locked"}

\* C15: a _pop_oauth_state(token) made, by any request, after the
\* _create_oauth_state that returned token gives that entry exactly when no
\* purge of the entry came due and no earlier pop took it, whatever else was
\* created in between; the pop runs alone under the lock.
CreateThenPopOrdering ==
    [][\A r \in Reqs :
          (pc[r] = "p_locked" /\ pc'[r] = "p_ret" /\ statearg[r] \in Tokens) =>
              /\ lock = r
              /\ \A q \in Reqs \ {r} : ~InCriticalSection(q)
              /\ Inserted(statearg[r])
              /\ payload'[r] = IF pops[statearg[r]] = 0 /\ statearg[r] \notin purgeDue
                               THEN <<Created(statearg[r])>> ELSE <<>>]_vars

\* a callback got the entry of token 1 although a later create, whose clock
\* read exactly the TTL past the entry's creation, ran its purge in between
PopSawEntryAfterLaterCreate ==
    /\ last.event = "pop"
    /\ last.state = 1
    /\ last.req # 1
    /\ last.payload = <<Created(1)>>
    /\ Inserted(2)
    /\ sampled[2] - sampled[1] = OAUTH_STATE_TTL_SECONDS

\* C16: at most one request is inside the critical section of
\* _create_oauth_state or _pop_oauth_state, it is the one holding the lock, and
\* between a create's purge and its insert no other request changes the store.
StoreMutualExclusion ==
    /\ [](/\ \A r, q \in Reqs : (InCriticalSection(r) /\ InCriticalSection(q)) => r = q
          /\ \A r \in Reqs : InCriticalSection(r) <=> lock = r)
    /\ [][\A r \in Reqs :
             pc[r] = "c_purged" => (store' = store \/ pc'[r] = "c_ret")]_vars

\* a create has purged an entry and not yet inserted its own, while a
\* callback is waiting for the lock
PopWaitsDuringCreate ==
    \E r, q \in Reqs :
        /\ pc[r] = "c_purged"
        /\ purgeDue # {}
        /\ pc[q] = "p_call"
        /\ lock = r

\* the response carries the error message msg
HasError(response, msg) ==
    /\ response.url # <<>>
    /\ \E i \in DOMAIN response.url[1].query :
           response.url[1].query[i] = <<"oauth_error", msg>>

\* C17: _pop_oauth_state returns, and removes, an entry older than
\* OAUTH_STATE_TTL_SECONDS as long as no purge of it came due, and
\* oauth_callback does not answer such a handshake with the expired-session
\* failure.
StalePopReturnsEntry ==
    /\ ( /\ last.event = "pop"
         /\ last.state \in Tokens
         /\ last.at - sampled[last.state] > OAUTH_STATE_TTL_SECONDS
         /\ last.ord = 1
         /\ ~last.due )
          => (last.payload = <<Created(last.state)>> /\ last.state \notin DOMAIN store)
    /\ ( /\ last.event = "callback"
         /\ last.payload # <<>>
         /\ last.at - last.payload[1].created_at > OAUTH_STATE_TTL_SECONDS )
          => ~HasError(last.resp, MsgExpired)

\* a callback that came more than the TTL after its handshake was created
\* signed the user in
StaleCallbackSignedIn ==
    /\ last.event = "callback"
    /\ last.payload # <<>>
    /\ last.at - last.payload[1].created_at > OAUTH_STATE_TTL_SECONDS
    /\ HasToken(last.resp)
    /\ last.effects.dbwrite

\* the one answer to a callback without a stored handshake
AbsentResponse ==
    RedirectResponse(_append_query_params(DEFAULT_OAUTH_REDIRECT, "oauth_error", MsgExpired))

\* C18: a callback whose state was never issued, was already consumed, or
\* expired and was purged gets one and the same response, whatever else the
\* request carries.
AbsentHandshakesIndistinguishable ==
    (last.event = "callback" /\ last.payload = <<>>
            /\ (last.state = ForgedState \/ last.state \in Tokens))
        => last.resp = AbsentResponse

\* a callback whose handshake had been purged got the answer a forged state
\* gets
PurgedCallbackAnsweredAsForged ==
    /\ last.event = "callback"
    /\ last.state \in Tokens
    /\ last.due
    /\ pops[last.state] = 1
    /\ last.payload = <<>>
    /\ last.resp = AbsentResponse

\* C19 as stated: a callback without a stored handshake is not sent to a
\* default redirect destination.
AbsentNeverRedirectsToDefault ==
    (last.event = "callback" /\ last.resp.status # 400 /\ last.payload = <<>>)
        => ~ ( /\ last.resp.url # <<>>
               /\ last.resp.url[1].origin = DEFAULT_OAUTH_REDIRECT.origin
               /\ last.resp.url[1].path = DEFAULT_OAUTH_REDIRECT.path )

\* C19 as amended: a callback without a stored handshake contacts no provider
\* and signs nobody in; it is redirected to DEFAULT_OAUTH_REDIRECT with an
\* oauth_error parameter and nothing else.
AbsentRedirectsToDefaultWithError ==
    (last.event = "callback" /\ last.resp.status # 400 /\ last.payload = <<>>)
        => /\ ~last.effects.exchanged
           /\ last.resp.status = 307
           /\ last.resp.url # <<>>
           /\ last.resp.url[1].origin = DEFAULT_OAUTH_REDIRECT.origin
           /\ last.resp.url[1].path = DEFAULT_OAUTH_REDIRECT.path
           /\ Len(last.resp.url[1].query) = 1
           /\ last.resp.url[1].query[1][1] = "oauth_error"

\* a callback with a state nobody issued was redirected to the default
\* destination
ForgedCallbackRedirectedToDefault ==
    /\ last.event = "callback"
    /\ last.state = ForgedState
    /\ last.payload = <<>>
    /\ last.resp.status = 307
    /\ last.resp.url[1].origin = DEFAULT_OAUTH_REDIRECT.origin

PurgeUsedEarlierClock ==
    \E r \in Reqs, t \in DOMAIN store :
        /\ pc[r] = "c_purged"
        /\ now - store[t].created_at > 600
        /\ sampled[r] - store[t].created_at <= 600

\* the response carries an access token of the user with address email
HasTokenOf(response, email) ==
    /\ response.url # <<>>
    /\ \E i \in DOMAIN response.url[1].query :
           response.url[1].query[i] = <<"oauth_token", email>>

\* C28: no request that finds a user with is_active false answers with an
\* access token of that user.
InactiveNeverSignedIn ==
    [][\A e \in Emails :
          (users[e] # <<>> /\ ~users[e][1].is_active)
              => ~ (last' # last /\ last'.event = "callback" /\ HasTokenOf(last'.resp, e))]_vars

----------------------------------------------------------------------------
(* Strings. A Python str is the sequence of its characters. *)

UpperCase == <<"A", "B", "C", "D", "E", "F", "G", "H", "I", "J", "K", "L", "M", "N", "O", "P", "Q", "R", "S", "T", "U", "V", "W", "X", "Y", "Z">>
LowerCase == <<"a", "b", "c", "d", "e", "f", "g", "h", "i", "j", "k", "l", "m", "n", "o", "p", "q", "r", "s", "t", "u", "v", "w", "x", "y", "z">>
Whitespace == {" ", "\t", "\n"}

CharLower(c) ==
    IF \E i \in 1 .. Len(UpperCase) : UpperCase[i] = c
    THEN LowerCase[CHOOSE i \in 1 .. Len(UpperCase) : UpperCase[i] = c]
    ELSE c

CharUpper(c) ==
    IF \E i \in 1 .. Len(LowerCase) : LowerCase[i] = c
    THEN UpperCase[CHOOSE i \in 1 .. Len(LowerCase) : LowerCase[i] = c]
    ELSE c

\* str.lower()
StrLower(s) == [i \in 1 .. Len(s) |-> CharLower(s[i])]

\* str.upper()
StrUpper(s) == [i \in 1 .. Len(s) |-> CharUpper(s[i])]

\* str.replace(a, b) for one-character a and b
StrReplace(s, a, b) == [i \in 1 .. Len(s) |-> IF s[i] = a THEN b ELSE s[i]]

\* str.strip()
StrStrip(s) ==
    LET inner == {i \in 1 .. Len(s) : s[i] \notin Whitespace}
    IN  IF inner = {} THEN <<>>
        ELSE LET first == CHOOSE i \in inner : \A j \in inner : i <= j
                 final == CHOOSE i \in inner : \A j \in inner : j <= i
             IN  SubSeq(s, first, final)

----------------------------------------------------------------------------
(* Roles and role labels, models.py lines 32-38 and auth.py lines 136-181 *)

UserRole == {"super_admin", "admin", "manager", "auditor", "employee", "viewer"}

\* the member names
RoleName(r) ==
    CASE r = "super_admin" -> <<"S", "U", "P", "E", "R", "_", "A", "D", "M", "I", "N">>
      [] r = "admin" -> <<"A", "D", "M", "I", "N">>
      [] r = "manager" -> <<"M", "A", "N", "A", "G", "E", "R">>
      [] r = "auditor" -> <<"A", "U", "D", "I", "T", "O", "R">>
      [] r = "employee" -> <<"E", "M", "P", "L", "O", "Y", "E", "E">>
      [] r = "viewer" -> <<"V", "I", "E", "W", "E", "R">>

\* the member values
RoleValue(r) ==
    CASE r = "super_admin" -> <<"s", "u", "p", "e", "r", "_", "a", "d", "m", "i", "n">>
      [] r = "admin" -> <<"a", "d", "m", "i", "n">>
      [] r = "manager" -> <<"m", "a", "n", "a", "g", "e", "r">>
      [] r = "auditor" -> <<"a", "u", "d", "i", "t", "o", "r">>
      [] r = "employee" -> <<"e", "m", "p", "l", "o", "y", "e", "e">>
      [] r = "viewer" -> <<"v", "i", "e", "w", "e", "r">>

\* a normalisation that keeps the letter case
_normalize_role_name_NoLower(role) ==
    StrReplace(StrReplace(StrStrip(role), "-", "_"), " ", "_")

\* role.strip().lower().replace("-", "_").replace(" ", "_")
_normalize_role_name(role) ==
    StrReplace(StrReplace(StrLower(StrStrip(role)), "-", "_"), " ", "_")

\* lines 143-151: every role under the spellings of its value and name
RoleAliases(r) ==
    { RoleValue(r), RoleName(r), StrLower(RoleName(r)),
      StrReplace(RoleValue(r), "_", " "), StrReplace(RoleName(r), "_", " ") }

RoleAliasEntries ==
    UNION {{<<_normalize_role_name(a), r>> : a \in RoleAliases(r)} : r \in UserRole}

\* a table whose editor capability also names the employee
CapabilityAliases_EditorEmployee ==
    { <<<<"r", "e", "a", "d", "e", "r">>, {"viewer", "employee", "auditor", "manager", "admin", "super_admin"}>>,
      <<<<"e", "d", "i", "t", "o", "r">>, {"employee", "manager", "auditor", "admin", "super_admin"}>>,
      <<<<"r", "e", "v", "i", "e", "w", "e", "r">>, {"auditor", "admin", "super_admin"}>>,
      <<<<"a", "d", "m", "i", "n">>, {"admin", "super_admin"}>>,
      <<<<"s", "u", "p", "e", "r", " ", "a", "d", "m", "i", "n">>, {"super_admin"}>> }

\* lines 153-180: the capability labels
CapabilityAliases ==
    { <<<<"r", "e", "a", "d", "e", "r">>, {"viewer", "employee", "auditor", "manager", "admin", "super_admin"}>>,
      <<<<"e", "d", "i", "t", "o", "r">>, {"manager", "auditor", "admin", "super_admin"}>>,
      <<<<"r", "e", "v", "i", "e", "w", "e", "r">>, {"auditor", "admin", "super_admin"}>>,
      <<<<"a", "d", "m", "i", "n">>, {"admin", "super_admin"}>>,
      <<<<"s", "u", "p", "e", "r", " ", "a", "d", "m", "i", "n">>, {"super_admin"}>> }

\* setdefault(key, set()).add(role) over the entries: key -> roles
AliasMapOf(entries) ==
    [k \in {e[1] : e \in entries} |-> {e[2] : e \in {x \in entries : x[1] = k}}]

\* a second loop that leaves the entries of the first loop as they are
AliasMapUpdate_KeepExisting(m, caps) ==
    LET keys == {_normalize_role_name(c[1]) : c \in caps}
    IN  [k \in DOMAIN m \cup keys |->
            IF k \in DOMAIN m THEN m[k]
            ELSE UNION {c[2] : c \in {x \in caps : _normalize_role_name(x[1]) = k}}]

\* setdefault(key, set()).update(roles) over the capability labels
AliasMapUpdate(m, caps) ==
    LET keys == {_normalize_role_name(c[1]) : c \in caps}
    IN  [k \in DOMAIN m \cup keys |->
            (IF k \in DOMAIN m THEN m[k] ELSE {})
                \cup UNION {c[2] : c \in {x \in caps : _normalize_role_name(x[1]) = k}}]

_ROLE_ALIAS_MAP == AliasMapUpdate(AliasMapOf(RoleAliasEntries), CapabilityAliases)

\* _ROLE_ALIAS_MAP.get(normalized, set())
AliasGet(normalized) ==
    IF normalized \in DOMAIN _ROLE_ALIAS_MAP THEN _ROLE_ALIAS_MAP[normalized] ELSE {}

\* the roles in the order of their values
RoleOrder == <<"admin", "auditor", "employee", "manager", "super_admin", "viewer">>

\* sorted(resolved_roles, key=lambda role: role.value)
SortedRoles(resolved_roles) == SelectSeq(RoleOrder, LAMBDA r : r \in resolved_roles)

RECURSIVE ResolveLabels(_, _)
\* a loop that assigns the roles of a label instead of adding them
ResolveLabels_Assign(roles, i) ==
    LET hits == {j \in i .. Len(roles) :
                    roles[j] # <<>> /\ AliasGet(_normalize_role_name(roles[j])) # {}}
    IN  IF hits = {} THEN {}
        ELSE AliasGet(_normalize_role_name(roles[CHOOSE j \in hits : \A k \in hits : k <= j]))

\* lines 432-436: the loop over the labels, from label i on
ResolveLabels(roles, i) ==
    IF i > Len(roles) THEN {}
    ELSE (IF roles[i] = <<>> THEN {} ELSE AliasGet(_normalize_role_name(roles[i])))
             \cup ResolveLabels(roles, i + 1)

\* a guard that keeps an empty role set empty
require_roles_Closed(roles) == SortedRoles(ResolveLabels(roles, 1))

\* require_roles, lines 428-442: the list handed to require_role
require_roles(roles) ==
    LET resolved_roles == ResolveLabels(roles, 1)
    IN  SortedRoles(IF resolved_roles = {} THEN UserRole ELSE resolved_roles)

\* a checker with the test inverted
role_checker_Inverted(role, required_roles) ==
    IF \E i \in 1 .. Len(required_roles) : required_roles[i] = role THEN 403 ELSE 200

\* role_checker, lines 418-424: 403 "Insufficient permissions", or the user (200)
role_checker(role, required_roles) ==
    IF ~(\E i \in 1 .. Len(required_roles) : required_roles[i] = role) THEN 403 ELSE 200

----------------------------------------------------------------------------
(* Guarded endpoints: Depends(require_roles(labels...)) or Depends(require_role([...])) *)

MaxLabels == 2

Separators == {"_", " ", "-"}

\* str.title(): a letter after a non-letter is upper case, any other lower case
StrTitle(s) ==
    [i \in 1 .. Len(s) |->
        IF i = 1 \/ s[i - 1] \in Separators THEN CharUpper(s[i]) ELSE CharLower(s[i])]

\* the ways of writing role r: its value or name, the underscore as it is, as a
\* space or as a hyphen, in lower, upper or title case, or padded with whitespace
Spellings(r) ==
    UNION { { StrReplace(RoleValue(r), "_", sep),
              StrReplace(RoleName(r), "_", sep),
              StrTitle(StrReplace(RoleValue(r), "_", sep)) } : sep \in Separators }
        \cup { <<" ">> \o StrTitle(RoleValue(r)) \o <<"\t", "\n">> }

CapabilityLabels == { <<"R", "e", "a", "d", "e", "r">>, <<"E", "d", "i", "t", "o", "r">>, <<"R", "e", "v", "i", "e", "w", "e", "r">> }

\* labels that are no spelling of a role or capability
UnmatchedLabels == { <<>>, <<"n", "o", "t", "-", "a", "-", "r", "e", "a", "l", "-", "r", "o", "l", "e">>, <<"s", "u", "p", "e", "r", "a", "d", "m", "i", "n">> }

LabelPool == UNION {Spellings(r) : r \in UserRole} \cup CapabilityLabels \cup UnmatchedLabels

LabelLists == UNION {[1 .. n -> LabelPool] : n \in 0 .. MaxLabels}

\* the role lists passed to require_role directly (auth.py line 687)
DirectLists == { <<"admin", "manager">> }

\* incidents.py 72-73 (the same tuples: corrective_actions.py 61-62,
\* risk_assessments.py 50-51, app/routes/incident_ai.py 40-41,
\* app/routes/risk_ai.py 18-19)
READ_ROLES == << <<"R", "e", "a", "d", "e", "r">>, <<"E", "d", "i", "t", "o", "r">>, <<"R", "e", "v", "i", "e", "w", "e", "r">>, <<"A", "d", "m", "i", "n">>, <<"S", "u", "p", "e", "r", " ", "A", "d", "m", "i", "n">> >>
MANAGE_ROLES == << <<"E", "d", "i", "t", "o", "r">>, <<"R", "e", "v", "i", "e", "w", "e", "r">>, <<"A", "d", "m", "i", "n">>, <<"S", "u", "p", "e", "r", " ", "A", "d", "m", "i", "n">> >>

\* user_management.py 46-47
user_management_READ_ROLES == << <<"m", "a", "n", "a", "g", "e", "r">>, <<"a", "d", "m", "i", "n">>, <<"s", "u", "p", "e", "r", " ", "a", "d", "m", "i", "n">> >>
user_management_MANAGE_ROLES == << <<"a", "d", "m", "i", "n">>, <<"s", "u", "p", "e", "r", " ", "a", "d", "m", "i", "n">> >>

\* the label tuples the routers pass to require_roles
DeclaredGuards ==
    {READ_ROLES, MANAGE_ROLES, user_management_READ_ROLES, user_management_MANAGE_ROLES}

InitGuard ==
    /\ glabels \in LabelLists \cup DeclaredGuards
    /\ gvia \in {"require_roles", "require_role"}
    /\ gvia = "require_role" => glabels = <<>>
    /\ gstage = "declared"
    /\ grequired = <<>>
    /\ gcaller = "viewer"
    /\ gstatus = 0

frameGuard == <<hsVars, permVars, accessVars, loginVars, resetVars>>

\* require_roles(labels...) is evaluated where the endpoint is declared
RequireRoles ==
    /\ gstage = "declared"
    /\ gvia = "require_roles"
    /\ grequired' = require_roles(glabels)
    /\ gstage' = "guarded"
    /\ UNCHANGED <<glabels, gvia, gcaller, gstatus, frameGuard>>

\* require_role(required_roles), lines 417-425
RequireRole(required_roles) ==
    /\ gstage = "declared"
    /\ gvia = "require_role"
    /\ grequired' = required_roles
    /\ gstage' = "guarded"
    /\ UNCHANGED <<glabels, gvia, gcaller, gstatus, frameGuard>>

\* a request of a user with the given role reaches the dependency
RoleChecker(role) ==
    /\ gstage = "guarded"
    /\ gcaller' = role
    /\ gstatus' = role_checker(role, grequired)
    /\ gstage' = "checked"
    /\ UNCHANGED <<glabels, gvia, grequired, frameGuard>>

\* the endpoint body runs once its dependencies returned
Endpoint ==
    /\ gstage = "checked"
    /\ gstatus = 200
    /\ gstage' = "ran"
    /\ UNCHANGED <<glabels, gvia, grequired, gcaller, gstatus, frameGuard>>

NextGuard ==
    \/ RequireRoles
    \/ \E l \in DirectLists : RequireRole(l)
    \/ \E role \in UserRole : RoleChecker(role)
    \/ Endpoint

(* Properties of the guard *)

Range(f) == {f[i] : i \in DOMAIN f}

Guarded == gstage \in {"guarded", "checked", "ran"}

\* C5: require_roles with no labels, or with only labels that match no index
\* entry, resolves to every role, and a caller with any role is admitted.
FailOpenGuard ==
    (Guarded /\ gvia = "require_roles" /\ \A i \in DOMAIN glabels : glabels[i] \in UnmatchedLabels)
        => /\ Range(grequired) = UserRole
           /\ gstage # "guarded" => gstatus = 200

\* the guard built from "not-a-real-role" alone let a viewer through to the endpoint
UnmatchedLabelAdmitsViewer ==
    /\ gstage = "ran"
    /\ glabels = << <<"n", "o", "t", "-", "a", "-", "r", "e", "a", "l", "-", "r", "o", "l", "e">> >>
    /\ gcaller = "viewer"

\* C6: for every role r and every spelling of r, the guard of that one label
\* holds r, and it is the guard that the value of r gives.
GuardAcceptsSpellings ==
    \A r \in UserRole :
        (Guarded /\ gvia = "require_roles" /\ Len(glabels) = 1 /\ glabels[1] \in Spellings(r))
            => /\ r \in Range(grequired)
               /\ grequired = require_roles(<<RoleValue(r)>>)

\* the label "Super-Admin" gave the guard that admits super_admin alone
HyphenTitleSpellingResolved ==
    /\ gstage = "guarded"
    /\ glabels = << <<"S", "u", "p", "e", "r", "-", "A", "d", "m", "i", "n">> >>
    /\ grequired = <<"super_admin">>

\* C7: role_checker lets the request through exactly when the caller's role is
\* in the resolved roles; otherwise it answers 403 and the endpoint does not run.
AuthorizeIsMembership ==
    /\ gstage \in {"checked", "ran"} =>
          /\ gstatus = 200 <=> gcaller \in Range(grequired)
          /\ gstatus \in {200, 403}
    /\ gstage = "ran" => gcaller \in Range(grequired)

\* an employee was refused by the guard of the label "Editor"
EmployeeRefusedByEditorGuard ==
    /\ gstage = "checked"
    /\ glabels = << <<"E", "d", "i", "t", "o", "r">> >>
    /\ gcaller = "employee"
    /\ gstatus = 403

\* the role set each capability label stands for
CapabilitySet(label) ==
    CASE label \in {<<"r", "e", "a", "d", "e", "r">>, <<"R", "e", "a", "d", "e", "r">>} ->
             {"viewer", "employee", "auditor", "manager", "admin", "super_admin"}
      [] label \in {<<"e", "d", "i", "t", "o", "r">>, <<"E", "d", "i", "t", "o", "r">>} -> {"manager", "auditor", "admin", "super_admin"}
      [] label \in {<<"r", "e", "v", "i", "e", "w", "e", "r">>, <<"R", "e", "v", "i", "e", "w", "e", "r">>} -> {"auditor", "admin", "super_admin"}
      [] label \in {<<"a", "d", "m", "i", "n">>, <<"A", "d", "m", "i", "n">>} -> {"admin", "super_admin"}
      [] label \in {<<"s", "u", "p", "e", "r", "_", "a", "d", "m", "i", "n">>, <<"S", "u", "p", "e", "r", " ", "A", "d", "m", "i", "n">>} -> {"super_admin"}

CapabilitySpellings ==
    {<<"R", "e", "a", "d", "e", "r">>, <<"E", "d", "i", "t", "o", "r">>, <<"R", "e", "v", "i", "e", "w", "e", "r">>, <<"a", "d", "m", "i", "n">>, <<"A", "d", "m", "i", "n">>, <<"s", "u", "p", "e", "r", "_", "a", "d", "m", "i", "n">>, <<"S", "u", "p", "e", "r", " ", "A", "d", "m", "i", "n">>}

\* C20: a guard declared with one capability label requires reader = all six
\* roles, editor = manager, auditor, admin and super_admin, reviewer = auditor,
\* admin and super_admin, admin = admin and super_admin, super_admin =
\* super_admin alone; the index entries of admin and super_admin hold the
\* union of both construction steps, and each set contains the next.
CapabilityLabelsCumulative ==
    /\ (Guarded /\ gvia = "require_roles" /\ Len(glabels) = 1
                /\ glabels[1] \in CapabilitySpellings)
          => Range(grequired) = CapabilitySet(glabels[1])
    /\ Guarded =>
          /\ \A label \in {<<"r", "e", "a", "d", "e", "r">>, <<"e", "d", "i", "t", "o", "r">>, <<"r", "e", "v", "i", "e", "w", "e", "r">>, <<"a", "d", "m", "i", "n">>, <<"s", "u", "p", "e", "r", "_", "a", "d", "m", "i", "n">>} :
                 AliasGet(label) = CapabilitySet(label)
          /\ AliasGet(<<"e", "d", "i", "t", "o", "r">>) \subseteq AliasGet(<<"r", "e", "a", "d", "e", "r">>)
          /\ AliasGet(<<"r", "e", "v", "i", "e", "w", "e", "r">>) \subseteq AliasGet(<<"e", "d", "i", "t", "o", "r">>)
          /\ AliasGet(<<"a", "d", "m", "i", "n">>) \subseteq AliasGet(<<"r", "e", "v", "i", "e", "w", "e", "r">>)
          /\ AliasGet(<<"s", "u", "p", "e", "r", "_", "a", "d", "m", "i", "n">>) \subseteq AliasGet(<<"a", "d", "m", "i", "n">>)

\* an endpoint guarded by "Admin" requires admin and super_admin
AdminLabelRequiresAdminTier ==
    /\ Guarded
    /\ gvia = "require_roles"
    /\ glabels = <<<<"A", "d", "m", "i", "n">>>>
    /\ grequired = <<"admin", "super_admin">>

\* a label matches when its normalised form is a key of the index
Matching(label) == label # <<>> /\ _normalize_role_name(label) \in DOMAIN _ROLE_ALIAS_MAP

Reverse(s) == [i \in 1 .. Len(s) |-> s[Len(s) + 1 - i]]

\* C21: when at least one label matches, the guard holds exactly the union of
\* the index entries of the matching labels; it is the same guard for the
\* labels in reverse order, for the labels repeated, and for the matching
\* labels alone.
GuardIsUnionOfMatches ==
    (Guarded /\ gvia = "require_roles" /\ \E i \in DOMAIN glabels : Matching(glabels[i]))
        => /\ Range(grequired) =
                  UNION {_ROLE_ALIAS_MAP[_normalize_role_name(l)] :
                            l \in {x \in Range(glabels) : Matching(x)}}
           /\ grequired = require_roles(Reverse(glabels))
           /\ grequired = require_roles(glabels \o glabels)
           /\ grequired = require_roles(SelectSeq(glabels, Matching))

\* "Editor" next to an unmatched label gave the editor guard, not every role
UnmatchedNextToEditorIgnored ==
    /\ gstage = "guarded"
    /\ glabels = << <<"n", "o", "t", "-", "a", "-", "r", "e", "a", "l", "-", "r", "o", "l", "e">>, <<"E", "d", "i", "t", "o", "r">> >>
    /\ grequired = <<"admin", "auditor", "manager", "super_admin">>

\* two matching labels gave the union of their entries
ViewerAndAdminUnited ==
    /\ gstage = "guarded"
    /\ glabels = << <<"v", "i", "e", "w", "e", "r">>, <<"A", "d", "m", "i", "n">> >>
    /\ grequired = <<"admin", "super_admin", "viewer">>

\* C30: for every label tuple a router passes to require_roles each label is
\* a key of the index, so the guard does not come from the fall-open branch;
\* MANAGE_ROLES gives manager, auditor, admin and super_admin, the
\* MANAGE_ROLES of user_management admin and super_admin, and a guard of
\* either refuses an employee and a viewer with 403 before the endpoint runs.
NoDeclaredGuardFallsOpen ==
    (Guarded /\ gvia = "require_roles" /\ glabels \in DeclaredGuards)
        => /\ \A i \in DOMAIN glabels : Matching(glabels[i])
           /\ ResolveLabels(glabels, 1) = Range(grequired)
           /\ glabels = MANAGE_ROLES
                 => Range(grequired) = {"manager", "auditor", "admin", "super_admin"}
           /\ glabels = user_management_MANAGE_ROLES
                 => Range(grequired) = {"admin", "super_admin"}
           /\ ( /\ glabels \in {MANAGE_ROLES, user_management_MANAGE_ROLES}
                /\ gstage \in {"checked", "ran"}
                /\ gcaller \in {"employee", "viewer"} )
                 => (gstatus = 403 /\ gstage = "checked")

\* an employee was refused by an endpoint guarded with MANAGE_ROLES
EmployeeRefusedByManageRoles ==
    /\ gstage = "checked"
    /\ glabels = MANAGE_ROLES
    /\ grequired = <<"admin", "auditor", "manager", "super_admin">>
    /\ gcaller = "employee"
    /\ gstatus = 403

----------------------------------------------------------------------------
(* PermissionLevel, models.py lines 41-83 *)

PermissionLevel == {"READER", "EDITOR", "REVIEWER", "ADMIN", "SUPER_ADMIN"}

\* the member values, lines 47-51
PermValue(m) ==
    CASE m = "READER" -> <<"r", "e", "a", "d", "e", "r">>
      [] m = "EDITOR" -> <<"e", "d", "i", "t", "o", "r">>
      [] m = "REVIEWER" -> <<"r", "e", "v", "i", "e", "w", "e", "r">>
      [] m = "ADMIN" -> <<"a", "d", "m", "i", "n">>
      [] m = "SUPER_ADMIN" -> <<"s", "u", "p", "e", "r", "_", "a", "d", "m", "i", "n">>

\* a table with two rows swapped
LEGACY_PERMISSION_LEVEL_MAP_Swapped ==
    { <<<<"v", "i", "e", "w", "_", "o", "n", "l", "y">>, "READER">>,
      <<<<"l", "i", "n", "k", "_", "a", "c", "c", "e", "s", "s">>, "EDITOR">>,
      <<<<"e", "d", "i", "t", "_", "a", "c", "c", "e", "s", "s">>, "READER">>,
      <<<<"a", "d", "m", "i", "n", "_", "a", "c", "c", "e", "s", "s">>, "ADMIN">> }

\* lines 64-71, as <<key, member>> pairs
LEGACY_PERMISSION_LEVEL_MAP ==
    { <<<<"v", "i", "e", "w", "_", "o", "n", "l", "y">>, "READER">>,
      <<<<"l", "i", "n", "k", "_", "a", "c", "c", "e", "s", "s">>, "READER">>,
      <<<<"e", "d", "i", "t", "_", "a", "c", "c", "e", "s", "s">>, "EDITOR">>,
      <<<<"a", "d", "m", "i", "n", "_", "a", "c", "c", "e", "s", "s">>, "ADMIN">> }

\* LEGACY_PERMISSION_LEVEL_MAP.get(key)
LegacyGet(key) == {e[2] : e \in {x \in LEGACY_PERMISSION_LEVEL_MAP : x[1] = key}}

\* a hook that falls back to the lowest tier
_missing__Default(value) ==
    IF LegacyGet(StrLower(value)) # {}
    THEN <<CHOOSE m \in LegacyGet(StrLower(value)) : TRUE>>
    ELSE <<"READER">>

\* a hook that looks the value up as it is written
_missing__Exact(value) ==
    LET mapped == LegacyGet(value)
    IN  IF mapped # {} THEN <<CHOOSE m \in mapped : TRUE>> ELSE <<>>

\* PermissionLevel._missing_, lines 53-61: the member, or None
_missing_(value) ==
    LET mapped == LegacyGet(StrLower(value))
    IN  IF mapped # {} THEN <<CHOOSE m \in mapped : TRUE>> ELSE <<>>

Resolved(m) == [status |-> "ok", level |-> m]
ValueError == [status |-> "ValueError", level |-> "none"]
NotLoaded == [status |-> "none", level |-> "none"]

\* PermissionLevel(value): the member with that value, else what _missing_
\* gives, else ValueError
PermissionLevelOf(value) ==
    IF \E m \in PermissionLevel : PermValue(m) = value
    THEN Resolved(CHOOSE m \in PermissionLevel : PermValue(m) = value)
    ELSE IF _missing_(value) # <<>> THEN Resolved(_missing_(value)[1])
    ELSE ValueError

\* _permission_level_values, lines 74-83: a member is written back as its value
_permission_level_values(m) == PermValue(m)

NRows == 2
Rows == 1 .. NRows

\* stored strings: the tier names, the legacy aliases, the aliases in upper
\* case (models.py line 126), other letter cases, and strings that are neither
RawPool ==
    { PermValue(m) : m \in PermissionLevel }
        \cup { e[1] : e \in LEGACY_PERMISSION_LEVEL_MAP }
        \cup { StrUpper(e[1]) : e \in LEGACY_PERMISSION_LEVEL_MAP }
        \cup { <<"V", "i", "e", "w", "_", "O", "n", "l", "y">>, <<"R", "e", "a", "d", "e", "r">>, <<"A", "D", "M", "I", "N">> }
        \cup { <<"o", "w", "n", "e", "r">>, <<>>, <<"v", "i", "e", "w", "e", "r">> }

InitPerm ==
    /\ praw \in [Rows -> RawPool]
    /\ plevel = [i \in Rows |-> NotLoaded]
    /\ pfirst = [i \in Rows |-> <<>>]

framePerm == <<hsVars, guardVars, accessVars, loginVars, resetVars>>

\* a row is read and its permission_level converted
PermLoad(i) ==
    /\ plevel[i] = NotLoaded
    /\ plevel' = [plevel EXCEPT ![i] = PermissionLevelOf(praw[i])]
    /\ pfirst' = [pfirst EXCEPT ![i] =
          IF pfirst[i] = <<>> /\ PermissionLevelOf(praw[i]).status = "ok"
          THEN <<[raw |-> praw[i], level |-> PermissionLevelOf(praw[i]).level]>>
          ELSE pfirst[i]]
    /\ UNCHANGED <<praw, framePerm>>

\* the row is written back and dropped from the session
PermStore(i) ==
    /\ plevel[i].status = "ok"
    /\ praw' = [praw EXCEPT ![i] = _permission_level_values(plevel[i].level)]
    /\ plevel' = [plevel EXCEPT ![i] = NotLoaded]
    /\ UNCHANGED <<pfirst, framePerm>>

NextPerm ==
    \/ \E i \in Rows : PermLoad(i)
    \/ \E i \in Rows : PermStore(i)

(* Properties of the permission levels *)

CurrentNames == { <<"r", "e", "a", "d", "e", "r">>, <<"e", "d", "i", "t", "o", "r">>, <<"r", "e", "v", "i", "e", "w", "e", "r">>, <<"a", "d", "m", "i", "n">>, <<"s", "u", "p", "e", "r", "_", "a", "d", "m", "i", "n">> }
LegacyNames == { <<"v", "i", "e", "w", "_", "o", "n", "l", "y">>, <<"l", "i", "n", "k", "_", "a", "c", "c", "e", "s", "s">>, <<"e", "d", "i", "t", "_", "a", "c", "c", "e", "s", "s">>, <<"a", "d", "m", "i", "n", "_", "a", "c", "c", "e", "s", "s">> }

\* the tier the data model gives a stored string
ExpectedTier(raw) ==
    CASE raw = <<"r", "e", "a", "d", "e", "r">> -> "READER"
      [] raw = <<"e", "d", "i", "t", "o", "r">> -> "EDITOR"
      [] raw = <<"r", "e", "v", "i", "e", "w", "e", "r">> -> "REVIEWER"
      [] raw = <<"a", "d", "m", "i", "n">> -> "ADMIN"
      [] raw = <<"s", "u", "p", "e", "r", "_", "a", "d", "m", "i", "n">> -> "SUPER_ADMIN"
      [] raw = <<"v", "i", "e", "w", "_", "o", "n", "l", "y">> -> "READER"
      [] raw = <<"l", "i", "n", "k", "_", "a", "c", "c", "e", "s", "s">> -> "READER"
      [] raw = <<"e", "d", "i", "t", "_", "a", "c", "c", "e", "s", "s">> -> "EDITOR"
      [] raw = <<"a", "d", "m", "i", "n", "_", "a", "c", "c", "e", "s", "s">> -> "ADMIN"

\* C8: a current tier name resolves to that tier, view_only and link_access to
\* reader, edit_access to editor, admin_access to admin; and a row that was
\* resolved, written back and resolved again gives the tier it gave first.
LegacyMigration ==
    \A i \in Rows :
        /\ (plevel[i] # NotLoaded /\ praw[i] \in CurrentNames \cup LegacyNames)
              => plevel[i] = Resolved(ExpectedTier(praw[i]))
        /\ (plevel[i] # NotLoaded /\ pfirst[i] # <<>>)
              => plevel[i] = Resolved(pfirst[i][1].level)

\* a row stored as edit_access was resolved, written back as editor and
\* resolved again to EDITOR
EditAccessMigratedTwice ==
    \E i \in Rows :
        /\ pfirst[i] # <<>>
        /\ pfirst[i][1].raw = <<"e", "d", "i", "t", "_", "a", "c", "c", "e", "s", "s">>
        /\ praw[i] = <<"e", "d", "i", "t", "o", "r">>
        /\ plevel[i] = Resolved("EDITOR")

OtherCaseOf(names, raw) == raw \notin names /\ StrLower(raw) \in names

----------------------------------------------------------------------------
(* Questionnaire access, questionnaires.py lines 24-77 and 170-186 *)

\* AccessLevel, models.py lines 132-136
AccessLevel == {"public", "internal", "confidential", "restricted"}

DepartmentIds == 1 .. 4
SiteIds == 1 .. 3
CountryIds == 1 .. 3
CompanyIds == 1 .. 2

\* db.query(Department).filter(Department.id == id).first(): the row's
\* site_id, or None when there is no such row
DepartmentRow(db, id) == db.department[id]

\* db.query(Site).filter(Site.id == id).first(): the row's country_id
SiteRow(db, id) == db.site[id]

\* db.query(Country).filter(Country.id == id).first(): the row's company_id
CountryRow(db, id) == db.country[id]

\* db.query(User).filter(User.id == id).first()
UserRowById(id) == IF id = requester.id THEN <<requester>> ELSE creator

\* a comparison that also refuses when the creator's chain has a missing link
TenantDenied_Closed(db, user, creator_row) ==
    IF user.department_id # <<>>
            /\ DepartmentRow(db, user.department_id[1]) # <<>>
            /\ SiteRow(db, DepartmentRow(db, user.department_id[1])[1]) # <<>>
            /\ CountryRow(db, SiteRow(db, DepartmentRow(db, user.department_id[1])[1])[1]) # <<>>
    THEN ~ ( /\ creator_row # <<>>
             /\ creator_row[1].department_id # <<>>
             /\ DepartmentRow(db, creator_row[1].department_id[1]) # <<>>
             /\ SiteRow(db, DepartmentRow(db, creator_row[1].department_id[1])[1]) # <<>>
             /\ CountryRow(db, SiteRow(db, DepartmentRow(db, creator_row[1].department_id[1])[1])[1])
                  = CountryRow(db, SiteRow(db, DepartmentRow(db, user.department_id[1])[1])[1]) )
    ELSE FALSE

\* lines 35-58: TRUE when the walk reaches "return False"
TenantDenied(db, user, creator_row) ==
    IF user.department_id # <<>>
    THEN LET user_department == DepartmentRow(db, user.department_id[1])
         IN  IF user_department # <<>>
             THEN LET user_site == SiteRow(db, user_department[1])
                  IN  IF user_site # <<>>
                      THEN LET user_country == CountryRow(db, user_site[1])
                           IN  IF user_country # <<>>
                               THEN IF creator_row # <<>> /\ creator_row[1].department_id # <<>>
                                    THEN LET creator_department ==
                                                 DepartmentRow(db, creator_row[1].department_id[1])
                                         IN  IF creator_department # <<>>
                                             THEN LET creator_site == SiteRow(db, creator_department[1])
                                                  IN  IF creator_site # <<>>
                                                      THEN LET creator_country ==
                                                                   CountryRow(db, creator_site[1])
                                                           IN  IF creator_country # <<>>
                                                               THEN user_country[1] # creator_country[1]
                                                               ELSE FALSE
                                                      ELSE FALSE
                                             ELSE FALSE
                                    ELSE FALSE
                               ELSE FALSE
                      ELSE FALSE
             ELSE FALSE
    ELSE FALSE

Decision(allowed, reason) == [allowed |-> allowed, reason |-> reason]

\* a check that looks at the creator only after the company walk
check_questionnaire_access_OwnerLate(db, q, user) ==
    IF user.role = "admin" THEN Decision(TRUE, "admin")
    ELSE IF TenantDenied(db, user, UserRowById(q.created_by_id))
    THEN Decision(FALSE, "tenant")
    ELSE IF q.target_roles # <<>> /\ RoleValue(user.role) \notin q.target_roles[1]
    THEN Decision(FALSE, "target_roles")
    ELSE IF q.created_by_id = user.id THEN Decision(TRUE, "creator")
    ELSE IF q.target_departments # <<>>
            /\ (user.department_id = <<>> \/ user.department_id[1] \notin q.target_departments[1])
    THEN Decision(FALSE, "target_departments")
    ELSE IF q.access_level = "public" THEN Decision(TRUE, "public")
    ELSE IF q.access_level = "internal"
    THEN Decision(user.role \in {"admin", "manager", "auditor", "employee", "viewer"}, "internal")
    ELSE Decision(FALSE, "access_level")

\* a check that lets a public questionnaire through before the company walk
check_questionnaire_access_PublicFirst(db, q, user) ==
    IF user.role = "admin" THEN Decision(TRUE, "admin")
    ELSE IF q.created_by_id = user.id THEN Decision(TRUE, "creator")
    ELSE IF q.access_level = "public" /\ q.target_roles = <<>> /\ q.target_departments = <<>>
    THEN Decision(TRUE, "public")
    ELSE IF TenantDenied(db, user, UserRowById(q.created_by_id))
    THEN Decision(FALSE, "tenant")
    ELSE IF q.target_roles # <<>> /\ RoleValue(user.role) \notin q.target_roles[1]
    THEN Decision(FALSE, "target_roles")
    ELSE IF q.target_departments # <<>>
            /\ (user.department_id = <<>> \/ user.department_id[1] \notin q.target_departments[1])
    THEN Decision(FALSE, "target_departments")
    ELSE IF q.access_level = "public" THEN Decision(TRUE, "public")
    ELSE IF q.access_level = "internal"
    THEN Decision(user.role \in {"admin", "manager", "auditor", "employee", "viewer"}, "internal")
    ELSE Decision(FALSE, "access_level")

\* a check whose last branch takes every level but public as internal
check_questionnaire_access_ElseInternal(db, q, user) ==
    IF user.role = "admin" THEN Decision(TRUE, "admin")
    ELSE IF q.created_by_id = user.id THEN Decision(TRUE, "creator")
    ELSE IF TenantDenied(db, user, UserRowById(q.created_by_id))
    THEN Decision(FALSE, "tenant")
    ELSE IF q.target_roles # <<>> /\ RoleValue(user.role) \notin q.target_roles[1]
    THEN Decision(FALSE, "target_roles")
    ELSE IF q.target_departments # <<>>
            /\ (user.department_id = <<>> \/ user.department_id[1] \notin q.target_departments[1])
    THEN Decision(FALSE, "target_departments")
    ELSE IF q.access_level = "public" THEN Decision(TRUE, "public")
    ELSE Decision(user.role \in {"admin", "manager", "auditor", "employee", "viewer"}, "internal")

\* lines 24-77: the answer and the line that gave it
check_questionnaire_access(db, q, user) ==
    IF user.role = "admin" THEN Decision(TRUE, "admin")
    ELSE IF q.created_by_id = user.id THEN Decision(TRUE, "creator")
    ELSE IF TenantDenied(db, user, UserRowById(q.created_by_id))
    THEN Decision(FALSE, "tenant")
    ELSE IF q.target_roles # <<>> /\ RoleValue(user.role) \notin q.target_roles[1]
    THEN Decision(FALSE, "target_roles")
    ELSE IF q.target_departments # <<>>
            /\ (user.department_id = <<>> \/ user.department_id[1] \notin q.target_departments[1])
    THEN Decision(FALSE, "target_departments")
    ELSE IF q.access_level = "public" THEN Decision(TRUE, "public")
    ELSE IF q.access_level = "internal"
    THEN Decision(user.role \in {"admin", "manager", "auditor", "employee", "viewer"}, "internal")
    ELSE Decision(FALSE, "access_level")

NoDecision == [status |-> 0, allowed |-> FALSE, reason |-> "none"]

RequesterId == 1
OtherUserId == 2

DepartmentRefs == {<<>>} \cup {<<d>> : d \in DepartmentIds}

\* departments 1..3 exist, each on its own site; department 4 is a reference
\* left behind by a deleted row, as are site 3 (in some databases) and country 3
OrgDatabases ==
    { [department |-> [d \in DepartmentIds |-> IF d <= 3 THEN <<d>> ELSE <<>>],
       site |-> [x \in SiteIds |-> IF x = 1 THEN <<1>> ELSE IF x = 2 THEN <<c>> ELSE s3],
       country |-> [x \in CountryIds |-> IF x = 1 THEN <<1>> ELSE IF x = 2 THEN <<k>> ELSE <<>>]]
        : c \in {1, 2}, k \in CompanyIds, s3 \in {<<>>, <<3>>} }

Questionnaires ==
    { [created_by_id |-> c, target_roles |-> tr, target_departments |-> td, access_level |-> al]
        : c \in {RequesterId, OtherUserId},
          tr \in {<<>>, <<{}>>, <<{RoleValue("manager"), RoleValue("employee")}>>},
          td \in {<<>>, <<{1}>>},
          al \in AccessLevel }

InitAccess ==
    /\ orgdb \in OrgDatabases
    /\ requester \in [id : {RequesterId}, role : UserRole, department_id : DepartmentRefs]
    /\ creator \in {<<>>} \cup {<<[id |-> OtherUserId, role |-> "employee", department_id |-> d]>> : d \in DepartmentRefs}
    /\ questionnaire \in {<<>>} \cup {<<q>> : q \in Questionnaires}
    /\ astage = "ready"
    /\ aresult = NoDecision

frameAccess == <<hsVars, guardVars, permVars, loginVars, resetVars>>

\* get_questionnaire, lines 170-186
GetQuestionnaire ==
    /\ astage = "ready"
    /\ astage' = "done"
    /\ aresult' =
          IF questionnaire = <<>> THEN [NoDecision EXCEPT !.status = 404]
          ELSE LET d == check_questionnaire_access(orgdb, questionnaire[1], requester)
               IN  [status |-> IF d.allowed THEN 200 ELSE 403,
                    allowed |-> d.allowed, reason |-> d.reason]
    /\ UNCHANGED <<orgdb, requester, creator, questionnaire, frameAccess>>

NextAccess == GetQuestionnaire

(* Properties of the access check *)

\* the companies a department reference leads to: one when every row on the
\* way exists, none otherwise
CompaniesOf(dept) ==
    { k \in CompanyIds :
        \E d \in DepartmentIds, x \in SiteIds, c \in CountryIds :
            /\ dept = <<d>>
            /\ orgdb.department[d] = <<x>>
            /\ orgdb.site[x] = <<c>>
            /\ orgdb.country[c] = <<k>> }

CreatorCompanies ==
    IF UserRowById(questionnaire[1].created_by_id) = <<>> THEN {}
    ELSE CompaniesOf(UserRowById(questionnaire[1].created_by_id)[1].department_id)

\* the check got as far as the comparison of the two companies
TenantCompared ==
    /\ astage = "done"
    /\ questionnaire # <<>>
    /\ aresult.reason \notin {"admin", "creator"}

\* C10: the comparison refuses only when the requester's and the creator's
\* chains both resolve and the companies differ; with a missing link on either
\* side, or the same company, it lets the check go on; and a user whose chain
\* resolves is never refused against itself.
SameTenantComparison ==
    /\ TenantCompared =>
          (aresult.reason = "tenant" <=>
              /\ CompaniesOf(requester.department_id) # {}
              /\ CreatorCompanies # {}
              /\ CompaniesOf(requester.department_id) # CreatorCompanies)
    /\ (astage = "done" /\ CompaniesOf(requester.department_id) # {})
          => ~ TenantDenied(orgdb, requester, <<requester>>)

\* a manager of company 1 asked for a public questionnaire whose creator is in
\* company 2 and was refused
CrossTenantRefused ==
    /\ astage = "done"
    /\ questionnaire # <<>>
    /\ requester.role = "manager"
    /\ questionnaire[1].access_level = "public"
    /\ CompaniesOf(requester.department_id) = {1}
    /\ CreatorCompanies = {2}
    /\ aresult = [status |-> 403, allowed |-> FALSE, reason |-> "tenant"]

\* the check ran on an existing questionnaire
AccessChecked == astage = "done" /\ questionnaire # <<>>

IsCreator == questionnaire[1].created_by_id = requester.id

\* C11: a requester whose id is the questionnaire's creator id is allowed,
\* whatever the role, the target roles and departments, the companies and the
\* access level.
OwnershipAlwaysWins ==
    (AccessChecked /\ IsCreator) => (aresult.allowed /\ aresult.status = 200)

\* a viewer without a department read its own confidential questionnaire
\* whose target roles and departments exclude it
OwnerViewerAllowed ==
    /\ AccessChecked
    /\ IsCreator
    /\ requester.role = "viewer"
    /\ requester.department_id = <<>>
    /\ questionnaire[1].access_level = "confidential"
    /\ questionnaire[1].target_roles = <<{}>>
    /\ questionnaire[1].target_departments = <<{1}>>
    /\ aresult = [status |-> 200, allowed |-> TRUE, reason |-> "creator"]

\* C12: a requester whose role is admin or super_admin is allowed, whatever
\* the creator, the target roles and departments, the companies and the
\* access level.
AdminTierAlwaysAllowed ==
    (AccessChecked /\ requester.role \in {"admin", "super_admin"})
        => (aresult.allowed /\ aresult.status = 200)

\* C13: a requester that is neither admin nor super_admin nor the creator is
\* refused when its company and the creator's both resolve and differ,
\* whatever the access level, the target roles and the target departments.
TenantSeparation ==
    ( /\ AccessChecked
      /\ requester.role \notin {"admin", "super_admin"}
      /\ ~ IsCreator
      /\ CompaniesOf(requester.department_id) # {}
      /\ CreatorCompanies # {}
      /\ CompaniesOf(requester.department_id) # CreatorCompanies )
        => (~ aresult.allowed /\ aresult.status = 403)

\* an employee of company 2, named by the target roles of a public
\* questionnaire created in company 1, was refused
TargetedEmployeeOfOtherCompanyRefused ==
    /\ AccessChecked
    /\ requester.role = "employee"
    /\ questionnaire[1].access_level = "public"
    /\ questionnaire[1].target_roles # <<>>
    /\ RoleValue("employee") \in questionnaire[1].target_roles[1]
    /\ questionnaire[1].target_departments = <<>>
    /\ CompaniesOf(requester.department_id) = {2}
    /\ CreatorCompanies = {1}
    /\ aresult.status = 403

\* the requester is named by the target roles, or there are none
PassesTargetRoles ==
    \/ questionnaire[1].target_roles = <<>>
    \/ RoleValue(requester.role) \in questionnaire[1].target_roles[1]

\* the requester's department is a target department, or there are none
PassesTargetDepartments ==
    \/ questionnaire[1].target_departments = <<>>
    \/ /\ requester.department_id # <<>>
       /\ requester.department_id[1] \in questionnaire[1].target_departments[1]

\* the requester's company and the creator's do not both resolve and differ
PassesTenant ==
    ~ ( /\ CompaniesOf(requester.department_id) # {}
        /\ CreatorCompanies # {}
        /\ CompaniesOf(requester.department_id) # CreatorCompanies )

\* C23: a requester that passes the target-role, target-department and tenant
\* rules is allowed an internal questionnaire, whichever of the six roles it
\* holds.
InternalAllowsEveryRole ==
    ( /\ AccessChecked
      /\ questionnaire[1].access_level = "internal"
      /\ PassesTargetRoles
      /\ PassesTargetDepartments
      /\ PassesTenant )
        => (aresult.allowed /\ aresult.status = 200)

\* C24: a confidential or restricted questionnaire is refused to every
\* requester that is neither admin nor super_admin nor its creator, whatever
\* the role, the department and the companies.
ConfidentialDeniedByDefault ==
    ( /\ AccessChecked
      /\ questionnaire[1].access_level \in {"confidential", "restricted"}
      /\ requester.role \notin {"admin", "super_admin"}
      /\ ~ IsCreator )
        => (~ aresult.allowed /\ aresult.status = 403)

\* a manager of the creator's company, named by the target roles and in the
\* target department, was refused a restricted questionnaire
TargetedManagerRefusedRestricted ==
    /\ AccessChecked
    /\ requester.role = "manager"
    /\ requester.department_id = <<1>>
    /\ questionnaire[1].access_level = "restricted"
    /\ questionnaire[1].target_roles # <<>>
    /\ RoleValue("manager") \in questionnaire[1].target_roles[1]
    /\ questionnaire[1].target_departments = <<{1}>>
    /\ CompaniesOf(requester.department_id) = {1}
    /\ CreatorCompanies = {1}
    /\ aresult = [status |-> 403, allowed |-> FALSE, reason |-> "access_level"]

\* the questionnaire's creator has no row in the users table
CreatorMissing == UserRowById(questionnaire[1].created_by_id) = <<>>

----------------------------------------------------------------------------
(* Adaptive login evaluation, app/routes/auth_ai.py lines 37-150 *)

Digits == <<"0", "1", "2", "3", "4", "5", "6", "7", "8", "9">>
IsDigit(c) == \E i \in 1 .. 10 : Digits[i] = c
DigitValue(c) == (CHOOSE i \in 1 .. 10 : Digits[i] = c) - 1

RECURSIVE DigitsValue(_)
DigitsValue(s) ==
    IF s = <<>> THEN 0 ELSE 10 * DigitsValue(SubSeq(s, 1, Len(s) - 1)) + DigitValue(s[Len(s)])

\* int(text) for a str: blanks stripped, an optional sign, then decimal
\* digits; anything else is ValueError, written <<>>
IntOfStr(text) ==
    LET t == StrStrip(text)
        signed == t # <<>> /\ t[1] \in {"-", "+"}
        body == IF signed THEN Tail(t) ELSE t
    IN  IF body # <<>> /\ \A i \in 1 .. Len(body) : IsDigit(body[i])
        THEN <<IF signed /\ t[1] = "-" THEN 0 - DigitsValue(body) ELSE DigitsValue(body)>>
        ELSE <<>>

\* sub in s, for str
StrContains(s, sub) ==
    \E i \in 1 .. Len(s) - Len(sub) + 1 : SubSeq(s, i, i + Len(sub) - 1) = sub

\* ", ".join(parts)
RECURSIVE StrJoin(_)
StrJoin(parts) ==
    IF parts = <<>> THEN <<>>
    ELSE IF Len(parts) = 1 THEN parts[1]
    ELSE parts[1] \o <<",", " ">> \o StrJoin(Tail(parts))

ActionHigh == "Initiate multi-factor authentication and send security alert."
ActionMedium == "Prompt for MFA verification before completing sign-in."
ActionStandard == "Proceed with standard sign-in workflow."
ActionCode == "Enter the verification code sent to your email to finish signing in."

MessageMfa ==
    <<"M", "u", "l", "t", "i", "-", "f", "a", "c", "t", "o", "r", " ", "a", "u", "t", "h", "e", "n", "t", "i", "c", "a", "t", "i", "o", "n", " ", "i", "s", " ", "e", "n", "a", "b", "l", "e", "d", " ", "f", "o", "r", " ", "t", "h", "i", "s", " ", "a", "c", "c", "o", "u", "n", "t", ".", " ">>
        \o <<"W", "e", "'", "v", "e", " ", "s", "e", "n", "t", " ", "a", " ", "v", "e", "r", "i", "f", "i", "c", "a", "t", "i", "o", "n", " ", "c", "o", "d", "e", " ", "t", "o", " ", "y", "o", "u", "r", " ", "e", "m", "a", "i", "l", ".">>
MessageSpottedHead == <<"W", "e", "'", "v", "e", " ", "s", "p", "o", "t", "t", "e", "d", " ">>
MessageSpottedTail == <<".", " ", "W", "e", "'", "l", "l", " ", "a", "p", "p", "l", "y", " ", "a", "d", "a", "p", "t", "i", "v", "e", " ", "p", "r", "o", "t", "e", "c", "t", "i", "o", "n", "s", " ", "t", "o", " ", "k", "e", "e", "p", " ", "t", "h", "e", " ", "a", "c", "c", "o", "u", "n", "t", " ", "s", "a", "f", "e", ".">>
MessageWelcome ==
    <<"W", "e", "l", "c", "o", "m", "e", " ", "b", "a", "c", "k", "!", " ", "W", "e", "'", "l", "l", " ", "f", "a", "s", "t", "-", "t", "r", "a", "c", "k", " ", "y", "o", "u", "r", " ", "a", "c", "c", "e", "s", "s", " ", "b", "a", "s", "e", "d", " ", "o", "n", " ", "y", "o", "u", "r", " ", "t", "r", "u", "s", "t", "e", "d", " ", "l", "o", "g", "i", "n", " ", "p", "a", "t", "t", "e", "r", "n", ".">>
MessageFallback ==
    <<"W", "e", "'", "r", "e", " ", "t", "e", "m", "p", "o", "r", "a", "r", "i", "l", "y", " ", "u", "n", "a", "b", "l", "e", " ", "t", "o", " ", "p", "e", "r", "s", "o", "n", "a", "l", "i", "s", "e", " ", "t", "h", "i", "s", " ", "l", "o", "g", "i", "n", " ", "c", "h", "e", "c", "k", ",", " ">>
        \o <<"s", "o", " ", "w", "e", "'", "l", "l", " ", "c", "o", "n", "t", "i", "n", "u", "e", " ", "w", "i", "t", "h", " ", "t", "h", "e", " ", "s", "t", "a", "n", "d", "a", "r", "d", " ", "s", "i", "g", "n", "-", "i", "n", " ", "e", "x", "p", "e", "r", "i", "e", "n", "c", "e", ".">>

LoginEvaluationResponse(risk_level, require_mfa, recommended_action, personalised_message) ==
    [kind |-> "response", risk_level |-> risk_level, require_mfa |-> require_mfa,
     recommended_action |-> recommended_action, personalised_message |-> personalised_message]

\* an exception leaving the handler
Raised == [kind |-> "raise"]

\* lines 137-150: the response of the except branch
FallbackResponse ==
    LoginEvaluationResponse("low", FALSE, ActionStandard, MessageFallback)

\* lines 44-55: the hour after int(); <<>> is None
HourGiven(p) ==
    IF p.login_hour.type = "none" THEN <<>>
    ELSE IF p.login_hour.type = "int" THEN <<p.login_hour.val>>
    ELSE IntOfStr(p.login_hour.val)

Max(a, b) == IF a >= b THEN a ELSE b
Min(a, b) == IF a <= b THEN a ELSE b

\* lines 57-66: no exception can leave this only when a given hour exists or
\* the clock works
HourUsed(p, clock) ==
    IF HourGiven(p) = <<>> THEN clock ELSE <<Max(0, Min(23, HourGiven(p)[1]))>>

\* lines 68-90: the reasons, each with its score
Reasons(p, hour) ==
    (IF hour < 6 \/ hour > 22 THEN <<[score |-> 2, text |-> <<"u", "n", "u", "s", "u", "a", "l", " ", "l", "o", "g", "i", "n", " ", "h", "o", "u", "r">>]>> ELSE <<>>)
    \o (IF p.device_label = <<>> \/ p.device_label = <<<<>>>>
        THEN <<[score |-> 1, text |-> <<"n", "e", "w", " ", "d", "e", "v", "i", "c", "e">>]>> ELSE <<>>)
    \o (IF p.timezone = <<>> \/ p.timezone = <<<<>>>>
        THEN <<[score |-> 1, text |-> <<"t", "i", "m", "e", "z", "o", "n", "e", " ", "u", "n", "k", "n", "o", "w", "n">>]>> ELSE <<>>)
    \o (IF p.location # <<>> /\ p.location # <<<<>>>>
            /\ \E keyword \in {<<"v", "p", "n">>, <<"p", "r", "o", "x", "y">>} : StrContains(StrLower(p.location[1]), keyword)
        THEN <<[score |-> 2, text |-> <<"n", "e", "t", "w", "o", "r", "k", " ", "a", "n", "o", "n", "y", "m", "i", "s", "e", "r", " ", "d", "e", "t", "e", "c", "t", "e", "d">>]>> ELSE <<>>)

RECURSIVE RiskScore(_)
RiskScore(reasons) ==
    IF reasons = <<>> THEN 0 ELSE reasons[1].score + RiskScore(Tail(reasons))

\* lines 104-110: the user the two queries find; <<>> is None
FindUser(db, identifier) ==
    LET by_email == IF StrContains(identifier, <<"@">>)
                    THEN {u \in db.users : u.email = identifier} ELSE {}
        by_username == {u \in db.users : u.username = identifier}
    IN  IF by_email # {} THEN <<CHOOSE u \in by_email : TRUE>>
        ELSE IF by_username # {} THEN <<CHOOSE u \in by_username : TRUE>>
        ELSE <<>>

\* lines 44-135: the body of the try block; Raised when an exception leaves it
EvaluateBody(p, clock, db) ==
    IF HourUsed(p, clock) = <<>> THEN Raised
    ELSE LET hour == HourUsed(p, clock)[1]
             reasons == Reasons(p, hour)
             risk_score == RiskScore(reasons)
             risk_level == IF risk_score >= 4 THEN "high"
                           ELSE IF risk_score >= 2 THEN "medium" ELSE "low"
             require_mfa == risk_score >= 2
             action == IF risk_score >= 4 THEN ActionHigh
                       ELSE IF risk_score >= 2 THEN ActionMedium ELSE ActionStandard
             identifier == StrStrip(p.identifier)
         IN  IF identifier # <<>> /\ db.broken THEN Raised
             ELSE LET user == IF identifier # <<>> THEN FindUser(db, identifier) ELSE <<>>
                  IN  IF user # <<>> /\ user[1].mfa_enabled
                      THEN LoginEvaluationResponse(
                               IF risk_level = "low" THEN "medium" ELSE risk_level,
                               TRUE, ActionCode, MessageMfa)
                      ELSE LoginEvaluationResponse(risk_level, require_mfa, action,
                               IF reasons # <<>>
                               THEN MessageSpottedHead
                                        \o StrJoin([i \in 1 .. Len(reasons) |-> reasons[i].text])
                                        \o MessageSpottedTail
                               ELSE MessageWelcome)

\* a handler without the outer except
evaluate_login_NoFallback(p, clock, db) == EvaluateBody(p, clock, db)

\* evaluate_login, lines 37-150
evaluate_login(p, clock, db) ==
    IF EvaluateBody(p, clock, db) = Raised THEN FallbackResponse
    ELSE EvaluateBody(p, clock, db)

NoHour == [type |-> "none", val |-> <<>>]
IntHour(n) == [type |-> "int", val |-> n]
StrHour(text) == [type |-> "str", val |-> text]

\* login_hour as validated (None, 0..23) and as it can be assigned afterwards
LoginHours ==
    {NoHour} \cup {IntHour(n) : n \in {-1, 5, 6, 22, 23, 24}}
             \cup {StrHour(t) : t \in {<<"n", "o", "t", "-", "a", "-", "n", "u", "m", "b", "e", "r">>, <<" ", "7", " ">>, <<>>}}

LoginPayloads ==
    [identifier : {<<"a", "n", "n", "@", "c", "o", "r", "p", ".", "e", "x", "a", "m", "p", "l", "e">>, <<"a", "n", "n">>, <<"g", "h", "o", "s", "t", "@", "c", "o", "r", "p", ".", "e", "x", "a", "m", "p", "l", "e">>, <<" ", " ">>},
     timezone : {<<>>, <<<<"U", "T", "C">>>>},
     location : {<<>>, <<<<"B", "e", "r", "l", "i", "n">>>>, <<<<"C", "o", "r", "p", " ", "V", "P", "N">>>>},
     device_label : {<<>>, <<<<>>>>, <<<<"l", "a", "p", "t", "o", "p">>>>},
     login_hour : LoginHours]

LoginClocks == {<<>>, <<3>>, <<12>>}

LoginUser(mfa_enabled) ==
    [email |-> <<"a", "n", "n", "@", "c", "o", "r", "p", ".", "e", "x", "a", "m", "p", "l", "e">>, username |-> <<"a", "n", "n">>, mfa_enabled |-> mfa_enabled]

LoginSessions ==
    { [broken |-> TRUE, users |-> {}], [broken |-> FALSE, users |-> {}],
      [broken |-> FALSE, users |-> {LoginUser(FALSE)}],
      [broken |-> FALSE, users |-> {LoginUser(TRUE)}] }

InitLogin ==
    /\ lpayload \in LoginPayloads
    /\ lclock \in LoginClocks
    /\ ldb \in LoginSessions
    /\ lstage = "ready"
    /\ lresponse = <<>>

frameLogin == <<hsVars, guardVars, permVars, accessVars, resetVars>>

\* one call of the endpoint
EvaluateLogin ==
    /\ lstage = "ready"
    /\ lstage' = "done"
    /\ lresponse' = evaluate_login(lpayload, lclock, ldb)
    /\ UNCHANGED <<lpayload, lclock, ldb, frameLogin>>

NextLogin == EvaluateLogin

(* Properties of the login evaluation *)

\* the clock is read and raises, or the session is used and raises
InternalFailure ==
    \/ /\ lclock = <<>>
       /\ \/ lpayload.login_hour.type = "none"
          \/ lpayload.login_hour.type = "str" /\ IntOfStr(lpayload.login_hour.val) = <<>>
    \/ ldb.broken /\ \E i \in 1 .. Len(lpayload.identifier) : lpayload.identifier[i] # " "

\* C14: evaluate_login always returns a response, with risk_level low, medium
\* or high and a non-empty message, also when the clock raises or login_hour
\* is no integer; after an internal failure the response is the fallback:
\* low, no MFA, the standard sign-in action.
EvaluateLoginNeverRaises ==
    lstage = "done" =>
        /\ lresponse.kind = "response"
        /\ lresponse.risk_level \in {"low", "medium", "high"}
        /\ Len(lresponse.personalised_message) > 0
        /\ InternalFailure =>
              /\ lresponse.risk_level = "low"
              /\ lresponse.require_mfa = FALSE
              /\ lresponse.recommended_action = ActionStandard

\* the clock raised for a payload whose login_hour is the string
\* "not-a-number", and the fallback was returned
BrokenClockFellBack ==
    /\ lstage = "done"
    /\ lclock = <<>>
    /\ lpayload.login_hour.type = "str"
    /\ lpayload.login_hour.val = <<"n", "o", "t", "-", "a", "-", "n", "u", "m", "b", "e", "r">>
    /\ lresponse = FallbackResponse

----------------------------------------------------------------------------
(* Password reset, auth.py lines 693-776. Every request has its own database
   session; the statements of different requests interleave, and a commit
   writes the attributes the request changed. *)

NConfirm == 3
NResetTokens == 2
MaxResetTicks == 1

ConfirmReqs == 1 .. NConfirm
ResetTokens == 1 .. NResetTokens

\* timedelta(hours=1), in seconds
RESET_TOKEN_LIFETIME == 3600

\* get_password_hash: the stored hash of a password
get_password_hash(password) == <<"$2b$", password>>

\* new_password values (at least 8 characters, schemas.py 983-987)
NewPasswords == {"new-password-1", "new-password-2"}

ResetEmails == {"ann@corp.example", "nobody@corp.example"}

\* a row of password_reset_tokens, models.py 1072-1083
PasswordResetToken(is_used, expires_at, used_at) ==
    [is_used |-> is_used, expires_at |-> expires_at, used_at |-> used_at]

\* get_user_by_email: the one user of the table, or None
ResetUserByEmail(user, email) == IF email = "ann@corp.example" THEN <<user>> ELSE <<>>

\* lines 746-750: the row with that token that is unused and not yet expired
ValidTokenRecord(tokens, token, t) ==
    IF tokens[token] # <<>> /\ tokens[token][1].is_used = FALSE
                            /\ tokens[token][1].expires_at > t
    THEN tokens[token] ELSE <<>>

\* a reset link was issued at clock 0, or none was; the account may have been
\* deactivated since
InitReset ==
    /\ rclock = 0
    /\ rticks = 0
    /\ ruser \in {[is_active |-> a, hashed_password |-> get_password_hash("old-password")]
                     : a \in BOOLEAN}
    /\ rissued \in {0, 1}
    /\ rtokens = [t \in ResetTokens |->
                     IF t <= rissued
                     THEN <<PasswordResetToken(FALSE, RESET_TOKEN_LIFETIME, <<>>)>>
                     ELSE <<>>]
    /\ cpc = [r \in ConfirmReqs |-> "new"]
    /\ cargs = [r \in ConfirmReqs |-> <<>>]
    /\ cstatus = [r \in ConfirmReqs |-> 0]

frameReset == <<hsVars, guardVars, permVars, accessVars, loginVars>>

\* clock readings on both sides of expires_at
ResetTickSteps == {RESET_TOKEN_LIFETIME - 1, RESET_TOKEN_LIFETIME, RESET_TOKEN_LIFETIME + 1}

ResetTick(d) ==
    /\ rticks < MaxResetTicks
    /\ rclock' = rclock + d
    /\ rticks' = rticks + 1
    /\ UNCHANGED <<ruser, rtokens, rissued, cpc, cargs, cstatus, frameReset>>

\* request_password_reset, lines 696-735: an unknown address and an inactive
\* account get the same answer and no token; otherwise a row is added that
\* expires in an hour
RequestPasswordReset(email) ==
    /\ rissued < NResetTokens
    /\ rissued' = rissued + 1
    /\ rtokens' =
          IF ResetUserByEmail(ruser, email) # <<>> /\ ResetUserByEmail(ruser, email)[1].is_active
          THEN [rtokens EXCEPT ![rissued + 1] =
                   <<PasswordResetToken(FALSE, rclock + RESET_TOKEN_LIFETIME, <<>>)>>]
          ELSE rtokens
    /\ UNCHANGED <<rclock, rticks, ruser, cpc, cargs, cstatus, frameReset>>

\* requests are numbered in their order of arrival
ConfirmArrives(r) == cpc[r] = "new" /\ \A q \in ConfirmReqs : q < r => cpc[q] # "new"

\* confirm_password_reset, lines 746-756: the query for a valid token, and
\* the 400 when there is none
ConfirmQuery(r, token, new_password) ==
    /\ ConfirmArrives(r)
    /\ cargs' = [cargs EXCEPT ![r] = <<[token |-> token, new_password |-> new_password]>>]
    /\ LET token_record == ValidTokenRecord(rtokens, token, rclock)
       IN  /\ cpc' = [cpc EXCEPT ![r] = IF token_record # <<>> THEN "found" ELSE "done"]
           /\ cstatus' = [cstatus EXCEPT ![r] = IF token_record # <<>> THEN 0 ELSE 400]
    /\ UNCHANGED <<rclock, rticks, ruser, rtokens, rissued, frameReset>>

\* lines 759-764: the user of the token, and the 400 for an inactive account
ConfirmLoadUser(r) ==
    /\ cpc[r] = "found"
    /\ cpc' = [cpc EXCEPT ![r] = IF ruser.is_active THEN "loaded" ELSE "done"]
    /\ cstatus' = [cstatus EXCEPT ![r] = IF ruser.is_active THEN 0 ELSE 400]
    /\ UNCHANGED <<rclock, rticks, ruser, rtokens, rissued, cargs, frameReset>>

\* lines 767-776: the new hash and the used mark are written and committed
ConfirmCommit(r) ==
    /\ cpc[r] = "loaded"
    /\ ruser' = [ruser EXCEPT !.hashed_password = get_password_hash(cargs[r][1].new_password)]
    /\ rtokens' = [rtokens EXCEPT ![cargs[r][1].token] =
                      <<[@[1] EXCEPT !.is_used = TRUE, !.used_at = <<rclock>>]>>]
    /\ cpc' = [cpc EXCEPT ![r] = "done"]
    /\ cstatus' = [cstatus EXCEPT ![r] = 200]
    /\ UNCHANGED <<rclock, rticks, rissued, cargs, frameReset>>

NextReset ==
    \/ \E d \in ResetTickSteps : ResetTick(d)
    \/ \E email \in ResetEmails : RequestPasswordReset(email)
    \/ \E r \in ConfirmReqs, token \in ResetTokens, pw \in NewPasswords : ConfirmQuery(r, token, pw)
    \/ \E r \in ConfirmReqs : ConfirmLoadUser(r)
    \/ \E r \in ConfirmReqs : ConfirmCommit(r)

(* Properties of the password reset *)

\* the confirm requests with token t that were answered 200
Succeeded(t) == {r \in ConfirmReqs : cstatus[r] = 200 /\ cargs[r][1].token = t}

\* C29: of the confirm requests that carry one token at most one succeeds,
\* however they interleave; and a confirm that arrives once the token is
\* marked used, or at or after expires_at, is answered 400 and leaves the
\* password as it is.
ResetTokenSingleUse ==
    /\ [](\A t \in ResetTokens : Cardinality(Succeeded(t)) <= 1)
    /\ [][\A r \in ConfirmReqs :
             ( /\ cpc[r] = "new" /\ cpc'[r] # "new"
               /\ rtokens[cargs'[r][1].token] # <<>>
               /\ \/ rtokens[cargs'[r][1].token][1].is_used
                  \/ rclock > rtokens[cargs'[r][1].token][1].expires_at )
                 => (cstatus'[r] = 400 /\ ruser' = ruser)]_vars

----------------------------------------------------------------------------
(* The specifications *)

GuardIdle ==
    /\ glabels = <<>>
    /\ gvia = "require_roles"
    /\ gstage = "idle"
    /\ grequired = <<>>
    /\ gcaller = "viewer"
    /\ gstatus = 0

PermIdle ==
    /\ praw = <<>>
    /\ plevel = <<>>
    /\ pfirst = <<>>

AccessIdle ==
    /\ orgdb = <<>>
    /\ requester = <<>>
    /\ creator = <<>>
    /\ questionnaire = <<>>
    /\ astage = "idle"
    /\ aresult = FALSE

LoginIdle ==
    /\ lpayload = <<>>
    /\ lclock = <<>>
    /\ ldb = <<>>
    /\ lstage = "idle"
    /\ lresponse = <<>>

HandshakeIdle ==
    /\ InitHandshake
    /\ users = [e \in Emails |-> <<>>]

ResetIdle ==
    /\ rclock = 0
    /\ rticks = 0
    /\ ruser = <<>>
    /\ rtokens = <<>>
    /\ rissued = 0
    /\ cpc = <<>>
    /\ cargs = <<>>
    /\ cstatus = <<>>

Init == InitHandshake /\ GuardIdle /\ PermIdle /\ AccessIdle /\ LoginIdle /\ ResetIdle

Next ==
    \/ \E d \in TickSteps : Tick(d)
    \/ \E r \in Reqs, p \in ProviderInputs : AuthorizeReject(r, p)
    \/ \E r \in Reqs, p \in ProviderInputs, u \in RedirectInputs : AuthorizeStart(r, p, u)
    \/ \E r \in Reqs : CreateAcquire(r)
    \/ \E r \in Reqs : CreateCleanup(r)
    \/ \E r \in Reqs : CreateInsert(r)
    \/ \E r \in Reqs : AuthorizeReturn(r)
    \/ \E r \in Reqs, p \in ProviderInputs : CallbackReject(r, p)
    \/ \E r \in Reqs, s \in Tokens \cup {NoState, ForgedState} : CallbackStart(r, s)
    \/ \E r \in Reqs : PopAcquire(r)
    \/ \E r \in Reqs : PopRemove(r)
    \/ \E r \in Reqs, p \in SupportedProviders, code \in BOOLEAN, error \in BOOLEAN,
          o \in CallbackOutcomes, e \in Emails : CallbackFinish(r, p, code, error, o, e)

Spec == Init /\ [][Next]_vars

NextPairs ==
    \/ \E d \in TickSteps : Tick(d)
    \/ \E r \in Reqs, p \in PairProviders, u \in PairRedirects : PairCreate(r, p, u)
    \/ \E r \in Reqs : CreateAcquire(r)
    \/ \E r \in Reqs : CreateCleanup(r)
    \/ \E r \in Reqs : CreateInsert(r)
    \/ \E r \in Reqs : PairPop(r)
    \/ \E r \in Reqs : PopAcquire(r)
    \/ \E r \in Reqs : PopRemove(r)
    \/ \E r \in Reqs : PairDone(r)

SpecPairs == Init /\ [][NextPairs]_vars

PermInit == InitPerm /\ HandshakeIdle /\ GuardIdle /\ AccessIdle /\ LoginIdle /\ ResetIdle

SpecPerm == PermInit /\ [][NextPerm]_vars

AccessInit == InitAccess /\ HandshakeIdle /\ GuardIdle /\ PermIdle /\ LoginIdle /\ ResetIdle

SpecAccess == AccessInit /\ [][NextAccess]_vars

LoginInit == InitLogin /\ HandshakeIdle /\ GuardIdle /\ PermIdle /\ AccessIdle /\ ResetIdle

SpecLogin == LoginInit /\ [][NextLogin]_vars

GuardInit == InitGuard /\ HandshakeIdle /\ PermIdle /\ AccessIdle /\ LoginIdle /\ ResetIdle

SpecGuard == GuardInit /\ [][NextGuard]_vars

ResetInit == InitReset /\ HandshakeIdle /\ GuardIdle /\ PermIdle /\ AccessIdle /\ LoginIdle

SpecReset == ResetInit /\ [][NextReset]_vars

====
